---- MODULE Spec2Model ----
(***************************************************************************)
(* State-machine model of brain-mcp: the long-term memory graph            *)
(* (LongTermMemory), the thought tracker (ThinkingProcess), the scratch    *)
(* buffer (ShortTermMemory), the persistence manager (StorageManager) and  *)
(* the orchestrator (BrainMCP).                                            *)
(*                                                                         *)
(* Ids are the strings uuidv4() returns; the n-th call returns UUID(n).    *)
(* Texts are sequences of one-character strings, " " being whitespace.     *)
(* Time is counted in minutes.                                             *)
(***************************************************************************)
EXTENDS Integers, Sequences, FiniteSets, TLC

VARIABLES
    nodes,        \* LongTermMemory.nodes: id -> LongTermMemoryNode
    isDirty,      \* LongTermMemory.isDirty
    chains,       \* ThinkingProcess.chains: id -> ThoughtChain
    thoughts,     \* ThinkingProcess.thoughts: id -> ThoughtNode
    currentMode,  \* ThinkingProcess.currentMode
    memories,     \* ShortTermMemory.memories
    capacity,     \* ShortTermMemory.capacity
    uuidCount,    \* number of ids uuidv4() has handed out
    now,          \* the wall clock (Date.now / new Date), in minutes
    call,         \* the last call: its name and its arguments
    ret,          \* the MCPResponse the last call returned
    lockFile,     \* memory.brain.lock: NoFile or [mtime, content, owner]
    memoryFile,   \* memory.brain: NoFile or the file's content
    backupFile,   \* memory.brain.backup: NoFile or the file's content
    saves,        \* the StorageManager.save / BrainMCP.save calls in flight
    pendingSave,  \* StorageManager.pendingSave
    timerArmed,   \* StorageManager.autoSaveTimer is set
    initialized,  \* BrainMCP.initialized
    enableBackup, \* StorageManager.enableBackup (MemoryConfig.enableBackup)
    steps         \* calls made so far (bounds the runs explored)

graphVars   == <<nodes, isDirty>>
trackerVars == <<chains, thoughts, currentMode>>
scratchVars == <<memories, capacity>>
storageVars == <<lockFile, memoryFile, backupFile, saves, pendingSave,
                 timerArmed, initialized, enableBackup>>
vars == <<nodes, isDirty, chains, thoughts, currentMode, memories, capacity,
          uuidCount, now, call, ret, lockFile, memoryFile, backupFile, saves,
          pendingSave, timerArmed, initialized, enableBackup, steps>>

(***************************************************************************)
(* Bounds of the model.                                                    *)
(***************************************************************************)
MaxNodes == 2   \* ids a caller of the graph chooses from
MaxAssoc == 2   \* length of an association list passed by a caller
MaxSteps == 4   \* calls in a run of the graph specification
CallNodes == 2  \* the same three bounds of the specification SpecGraphCalls
CallAssoc == 1
CallSteps == 3
TravNodes == 4  \* the same three bounds of the specification SpecTraverse
TravAssoc == 2
TravSteps == 5
ChainNodes == 5 \* nodes of the chain of the specification SpecChain
ChainSteps == 6 \* calls in a run of the specification SpecChain
SearchNodes == 3 \* nodes added in a run of the specification SpecSearch
SearchSteps == 4 \* calls in a run of the specification SpecSearch
ScratchCapacity == 2 \* the largest capacity of the specification SpecScratch
ScratchSteps == 4 \* calls in a run of the specification SpecScratch
ThinkIds == 3   \* ids a caller of the tracker chooses from
ThinkSteps == 4 \* calls in a run of the tracker specification
SnapshotSteps == 3 \* requests in a run of the specification SpecSnapshot
LiveSteps == 2  \* requests in a run of the specification SpecLive
ShutdownSteps == 3 \* requests, clock ticks and steps of another process in a
                   \* run of the specification SpecShutdown
CrashSteps == 3 \* requests and crashes in a run of the specification SpecCrash
SaveSteps == 2  \* requests and timer ticks in a run of the specification SpecSave
TimerSteps == 3 \* requests, timer ticks and clock ticks in a run of the
                \* timer specification
StoreSteps == 2 \* requests, timer ticks, clock ticks, steps of another
                \* process and failed file operations in a run of the
                \* storage specification

(***************************************************************************)
(* Values.                                                                 *)
(***************************************************************************)
UUID(n) == "u" \o ToString(n)

EmptyMap == [k \in {} |-> k]

EmptyText == <<>>

\* String.prototype.trim on a text
RECURSIVE trimStart(_)
trimStart(s) ==
    IF s # <<>> /\ Head(s) = " " THEN trimStart(Tail(s)) ELSE s

RECURSIVE trimEnd(_)
trimEnd(s) ==
    IF s # <<>> /\ s[Len(s)] = " " THEN trimEnd(SubSeq(s, 1, Len(s) - 1)) ELSE s

trim(s) == trimEnd(trimStart(s))

\* MCPResponse of the call `op`: {success: true, data} / {success: false, error}
Success(op, data) == [op |-> op, ok |-> TRUE, error |-> "", data |-> data]
Failure(op, error) == [op |-> op, ok |-> FALSE, error |-> error, data |-> <<>>]

NoCall == [op |-> "", ok |-> TRUE, error |-> "", data |-> <<>>]

SeqsUpTo(S, n) == UNION {[1..k -> S] : k \in 0..n}

Range(s) == {s[i] : i \in DOMAIN s}

(***************************************************************************)
(* LongTermMemory: the graph of memory nodes.                              *)
(* Each method is an operator giving the outcome of the call in the        *)
(* current state: the node map, the dirty flag and the uuid count after    *)
(* the call, and the response it returns.                                  *)
(***************************************************************************)
GraphOutcome(ns, dirty, count, response) ==
    [nodes |-> ns, isDirty |-> dirty, uuidCount |-> count, ret |-> response]

\* an early `return {success: false, ...}`: nothing was assigned before it
GraphUnchanged(response) == GraphOutcome(nodes, isDirty, uuidCount, response)

\* some id of the list is not a key of the node map (the validation loops)
HasUnknown(ns, associations) ==
    \E i \in DOMAIN associations : associations[i] \notin DOMAIN ns

NewNode(id, text, associations) ==
    [id |-> id, text |-> trim(text), associations |-> associations,
     metadata |-> [createdAt |-> now, lastAccessed |-> now, accessCount |-> 0]]

\* a variant of add that stores the node before it validates the associations
LongTermMemory_add_storeFirst(text, associations) ==
    LET id == UUID(uuidCount + 1)
        stored == [k \in DOMAIN nodes \cup {id} |->
                      IF k = id THEN NewNode(id, text, associations) ELSE nodes[k]]
    IN  IF trim(text) = EmptyText
        THEN GraphUnchanged(Failure("add", "Memory text cannot be empty"))
        ELSE IF HasUnknown(nodes, associations)
        THEN GraphOutcome(stored, TRUE, uuidCount + 1,
                          Failure("add", "Associated node not found"))
        ELSE GraphOutcome(stored, TRUE, uuidCount + 1, Success("add", <<id>>))

LongTermMemory_add(text, associations) ==
    IF trim(text) = EmptyText
    THEN GraphUnchanged(Failure("add", "Memory text cannot be empty"))
    ELSE IF HasUnknown(nodes, associations)
    THEN GraphUnchanged(Failure("add", "Associated node not found"))
    ELSE LET id == UUID(uuidCount + 1)
         IN  GraphOutcome(
                 [k \in DOMAIN nodes \cup {id} |->
                     IF k = id THEN NewNode(id, text, associations) ELSE nodes[k]],
                 TRUE, uuidCount + 1, Success("add", <<id>>))

\* getAssociatedNodes: the recursive closure `traverse`, threading the
\* visited set and the result list through the calls
RECURSIVE traverse(_, _, _, _, _)
RECURSIVE traverseEach(_, _, _, _, _, _)
traverse(currentId, currentDepth, id, depth, st) ==
    IF currentDepth > depth \/ currentId \in st.visited
    THEN st
    ELSE LET st1 == [st EXCEPT !.visited = @ \cup {currentId}]
         IN  IF currentId \notin DOMAIN nodes
             THEN st1
             ELSE LET st2 == IF currentId # id
                             THEN [st1 EXCEPT !.result = Append(@, currentId)]
                             ELSE st1
                  IN  traverseEach(nodes[currentId].associations, 1,
                                   currentDepth + 1, id, depth, st2)

\* for (const assocId of node.associations) traverse(assocId, currentDepth + 1)
traverseEach(associations, i, d, id, depth, st) ==
    IF i > Len(associations)
    THEN st
    ELSE traverseEach(associations, i + 1, d, id, depth,
                      traverse(associations[i], d, id, depth, st))

getAssociatedNodes(id, depth) ==
    traverse(id, 0, id, depth, [visited |-> {}, result |-> <<>>]).result

Min(a, b) == IF a <= b THEN a ELSE b

MaxDepth == 3

\* a variant of the depth of get without the ceiling
ClampDepth_noCeiling(options) ==
    IF "depth" \in DOMAIN options THEN options.depth ELSE 1

\* Math.min(options.depth ?? 1, 3)
ClampDepth(options) ==
    Min(IF "depth" \in DOMAIN options THEN options.depth ELSE 1, MaxDepth)

\* the keys of a Map or of the object Object.fromEntries makes of it, in
\* insertion order: the order in which the ids were generated
Entries(m) ==
    SelectSeq([k \in 1..uuidCount |-> UUID(k)], LAMBDA id : id \in DOMAIN m)

\* String.prototype.toLowerCase, on the letters the model's texts use
toLowerCase(text) ==
    [i \in DOMAIN text |->
        CASE text[i] = "A" -> "a"
          [] text[i] = "B" -> "b"
          [] OTHER -> text[i]]

\* String.prototype.includes
includes(text, term) ==
    \E i \in 0..(Len(text) - Len(term)) : SubSeq(text, i + 1, i + Len(term)) = term

DefaultSearchLimit == 10

\* the loop of search over this.nodes.values(): a match is pushed, and then
\* the loop breaks if results.length >= limit
RECURSIVE searchLoop(_, _, _, _, _, _)
searchLoop(ids, i, searchTerm, caseSensitive, limit, results) ==
    IF i > Len(ids)
    THEN results
    ELSE LET node == nodes[ids[i]]
             text == IF caseSensitive THEN node.text ELSE toLowerCase(node.text)
         IN  IF includes(text, searchTerm)
             THEN LET pushed == Append(results, [id |-> node.id, text |-> node.text])
                  IN  IF Len(pushed) >= limit
                      THEN pushed
                      ELSE searchLoop(ids, i + 1, searchTerm, caseSensitive,
                                      limit, pushed)
             ELSE searchLoop(ids, i + 1, searchTerm, caseSensitive, limit, results)

LongTermMemory_search(keyword, options) ==
    IF trim(keyword) = EmptyText
    THEN GraphUnchanged(Failure("search", "Search keyword cannot be empty"))
    ELSE LET limit == IF "limit" \in DOMAIN options THEN options.limit
                      ELSE DefaultSearchLimit
             caseSensitive == IF "caseSensitive" \in DOMAIN options
                              THEN options.caseSensitive ELSE FALSE
             searchTerm == IF caseSensitive THEN keyword ELSE toLowerCase(keyword)
         IN  GraphUnchanged(
                 Success("search",
                         searchLoop(Entries(nodes), 1, searchTerm, caseSensitive,
                                    limit, <<>>)))

\* a variant of get that also counts an access of every node it returns
LongTermMemory_get_countsAll(id, options) ==
    IF id \notin DOMAIN nodes
    THEN GraphUnchanged(Failure("get", "Memory not found"))
    ELSE LET found == <<id>> \o getAssociatedNodes(id, ClampDepth(options))
         IN  GraphOutcome(
                 [k \in DOMAIN nodes |->
                     IF k \in Range(found)
                     THEN [nodes[k] EXCEPT !.metadata.lastAccessed = now,
                                           !.metadata.accessCount = @ + 1]
                     ELSE nodes[k]],
                 TRUE, uuidCount, Success("get", found))

LongTermMemory_get(id, options) ==
    IF id \notin DOMAIN nodes
    THEN GraphUnchanged(Failure("get", "Memory not found"))
    ELSE GraphOutcome(
             [nodes EXCEPT ![id].metadata.lastAccessed = now,
                           ![id].metadata.accessCount = @ + 1],
             TRUE, uuidCount,
             Success("get", <<id>> \o getAssociatedNodes(id, ClampDepth(options))))

LongTermMemory_update(id, args) ==
    IF id \notin DOMAIN nodes
    THEN GraphUnchanged(Failure("update", "Memory not found"))
    ELSE IF "newText" \in DOMAIN args /\ trim(args.newText) = EmptyText
    THEN GraphUnchanged(Failure("update", "Memory text cannot be empty"))
    ELSE LET \* node.text = newText.trim(), assigned before the associations
             \* are looked at
             ns1 == IF "newText" \in DOMAIN args
                    THEN [nodes EXCEPT ![id].text = trim(args.newText)]
                    ELSE nodes
         IN  IF "newAssociations" \in DOMAIN args
                /\ HasUnknown(ns1, args.newAssociations)
             THEN GraphOutcome(ns1, isDirty, uuidCount,
                               Failure("update", "Associated node not found"))
             ELSE LET ns2 == IF "newAssociations" \in DOMAIN args
                             THEN [ns1 EXCEPT ![id].associations =
                                                  args.newAssociations]
                             ELSE ns1
                  IN  GraphOutcome(
                          [ns2 EXCEPT ![id].metadata.lastAccessed = now],
                          TRUE, uuidCount, Success("update", <<>>))

\* indexOf(id) and splice(index, 1): the first occurrence only
RECURSIVE indexOf(_, _, _)
indexOf(s, x, i) ==
    IF i > Len(s) THEN 0 ELSE IF s[i] = x THEN i ELSE indexOf(s, x, i + 1)

spliceFirst(s, x) ==
    LET index == indexOf(s, x, 1)
    IN  IF index > 0
        THEN SubSeq(s, 1, index - 1) \o SubSeq(s, index + 1, Len(s))
        ELSE s

LongTermMemory_delete(id) ==
    IF id \notin DOMAIN nodes
    THEN GraphUnchanged(Failure("delete", "Memory not found"))
    ELSE GraphOutcome(
             [k \in DOMAIN nodes \ {id} |->
                 [nodes[k] EXCEPT !.associations = spliceFirst(@, id)]],
             TRUE, uuidCount, Success("delete", <<>>))

LongTermMemory_markClean ==
    GraphOutcome(nodes, FALSE, uuidCount, Success("markClean", <<>>))

(***************************************************************************)
(* ThinkingProcess: thought chains and thoughts.                           *)
(* A method is an operator on the tracker's state T (the chain map, the    *)
(* thought map, the current mode and the uuid count) giving the state      *)
(* after the call and the response; completeThoughtProcess also gives the  *)
(* graph after its call of LongTermMemory.add.  Confidence is counted in   *)
(* tenths.  An optional parameter is a field of the record `opt` that may  *)
(* be missing, and so is an optional property of a chain or a thought.     *)
(***************************************************************************)
Tracker ==
    [chains |-> chains, thoughts |-> thoughts, currentMode |-> currentMode,
     uuidCount |-> uuidCount]

TrackerOutcome(T, response) ==
    [chains |-> T.chains, thoughts |-> T.thoughts,
     currentMode |-> T.currentMode, uuidCount |-> T.uuidCount,
     nodes |-> nodes, isDirty |-> isDirty, ret |-> response]

\* map.set(k, v) and obj.f = v
Put(m, k, v) == [x \in DOMAIN m \cup {k} |-> IF x = k THEN v ELSE m[x]]

\* `if (x)` on an optional string parameter: given and not ''
Given(opt, f) == f \in DOMAIN opt /\ opt[f] # ""

ConfidenceMin == 0
ConfidenceMax == 10
DefaultAddConfidence == 7
DefaultBranchConfidence == 6

ThinkingProcess_startThoughtProcess(T, goal, opt) ==
    IF trim(goal) = EmptyText
    THEN TrackerOutcome(T, Failure("startThoughtProcess", "Goal cannot be empty"))
    ELSE LET chainId == UUID(T.uuidCount + 1)
             base == [id |-> chainId, goal |-> trim(goal), created_at |-> now,
                      status |-> "active", thoughts |-> <<>>, branches |-> <<>>,
                      cognitive_mode |-> T.currentMode]
             chain == IF "context" \in DOMAIN opt
                      THEN Put(base, "context", trim(opt.context))
                      ELSE base
         IN  TrackerOutcome(
                 [T EXCEPT !.chains = Put(@, chainId, chain),
                           !.uuidCount = @ + 1],
                 Success("startThoughtProcess", <<chainId>>))

AddThoughtConfidence(opt) ==
    IF "confidence" \in DOMAIN opt THEN opt.confidence ELSE DefaultAddConfidence

\* addThought once its arguments are validated: the thought is built, linked
\* under its parent, stored and appended to the chain
\* a variant that does not record the thought in its parent's next_thoughts
StoreThought_unlinked(T, chainId, thought, type, opt) ==
    LET thoughtId == UUID(T.uuidCount + 1)
        base ==
            [id |-> thoughtId, text |-> trim(thought),
             associations |-> <<>>,
             metadata |-> [createdAt |-> now, lastAccessed |-> now,
                           accessCount |-> 0],
             type |-> type, confidence |-> AddThoughtConfidence(opt),
             status |-> "active", parent_chain |-> chainId,
             next_thoughts |-> <<>>,
             reasoning_depth |->
                 IF Given(opt, "parentThoughtId")
                 THEN T.thoughts[opt.parentThoughtId].reasoning_depth + 1
                 ELSE 0,
             thought_metadata |-> [thinking_time |-> 0,
                                   complexity |-> "medium"]]
        thoughtNode ==
            IF "parentThoughtId" \in DOMAIN opt
            THEN Put(base, "previous_thought", opt.parentThoughtId)
            ELSE base
        linked == T.thoughts
    IN  TrackerOutcome(
            [T EXCEPT !.thoughts = Put(linked, thoughtId, thoughtNode),
                      !.chains[chainId].thoughts = Append(@, thoughtId),
                      !.uuidCount = @ + 1],
            Success("addThought", <<thoughtId>>))

\* a variant that does not push the thought onto the chain's thoughts list
StoreThought_unlisted(T, chainId, thought, type, opt) ==
    LET thoughtId == UUID(T.uuidCount + 1)
        base ==
            [id |-> thoughtId, text |-> trim(thought),
             associations |-> <<>>,
             metadata |-> [createdAt |-> now, lastAccessed |-> now,
                           accessCount |-> 0],
             type |-> type, confidence |-> AddThoughtConfidence(opt),
             status |-> "active", parent_chain |-> chainId,
             next_thoughts |-> <<>>,
             reasoning_depth |->
                 IF Given(opt, "parentThoughtId")
                 THEN T.thoughts[opt.parentThoughtId].reasoning_depth + 1
                 ELSE 0,
             thought_metadata |-> [thinking_time |-> 0,
                                   complexity |-> "medium"]]
        thoughtNode ==
            IF "parentThoughtId" \in DOMAIN opt
            THEN Put(base, "previous_thought", opt.parentThoughtId)
            ELSE base
        linked ==
            IF Given(opt, "parentThoughtId")
            THEN [T.thoughts EXCEPT ![opt.parentThoughtId].next_thoughts =
                                        Append(@, thoughtId)]
            ELSE T.thoughts
    IN  TrackerOutcome(
            [T EXCEPT !.thoughts = Put(linked, thoughtId, thoughtNode),
                      !.uuidCount = @ + 1],
            Success("addThought", <<thoughtId>>))

StoreThought(T, chainId, thought, type, opt) ==
    LET thoughtId == UUID(T.uuidCount + 1)
        base ==
            [id |-> thoughtId, text |-> trim(thought),
             associations |-> <<>>,
             metadata |-> [createdAt |-> now, lastAccessed |-> now,
                           accessCount |-> 0],
             type |-> type, confidence |-> AddThoughtConfidence(opt),
             status |-> "active", parent_chain |-> chainId,
             next_thoughts |-> <<>>,
             reasoning_depth |->
                 IF Given(opt, "parentThoughtId")
                 THEN T.thoughts[opt.parentThoughtId].reasoning_depth + 1
                 ELSE 0,
             thought_metadata |-> [thinking_time |-> 0,
                                   complexity |-> "medium"]]
        thoughtNode ==
            IF "parentThoughtId" \in DOMAIN opt
            THEN Put(base, "previous_thought", opt.parentThoughtId)
            ELSE base
        linked ==
            IF Given(opt, "parentThoughtId")
            THEN [T.thoughts EXCEPT ![opt.parentThoughtId].next_thoughts =
                                        Append(@, thoughtId)]
            ELSE T.thoughts
    IN  TrackerOutcome(
            [T EXCEPT !.thoughts = Put(linked, thoughtId, thoughtNode),
                      !.chains[chainId].thoughts = Append(@, thoughtId),
                      !.uuidCount = @ + 1],
            Success("addThought", <<thoughtId>>))

\* a variant of addThought that also stores the thought as a node of the
\* graph
ThinkingProcess_addThought_intoGraph(T, chainId, thought, type, opt) ==
    IF chainId \notin DOMAIN T.chains
    THEN TrackerOutcome(T, Failure("addThought", "Thought chain not found"))
    ELSE IF T.chains[chainId].status # "active"
    THEN TrackerOutcome(T, Failure("addThought",
                                   "Cannot add thoughts to a non-active chain"))
    ELSE IF trim(thought) = EmptyText
    THEN TrackerOutcome(T, Failure("addThought", "Thought text cannot be empty"))
    ELSE IF AddThoughtConfidence(opt) < ConfidenceMin
            \/ AddThoughtConfidence(opt) > ConfidenceMax
    THEN TrackerOutcome(T, Failure("addThought",
                                   "Confidence must be between 0 and 1"))
    ELSE IF Given(opt, "parentThoughtId")
            /\ opt.parentThoughtId \notin DOMAIN T.thoughts
    THEN TrackerOutcome(T, Failure("addThought", "Parent thought not found"))
    ELSE LET stored == StoreThought(T, chainId, thought, type, opt)
             thoughtId == stored.ret.data[1]
         IN  [stored EXCEPT
                 !.nodes = Put(@, thoughtId, NewNode(thoughtId, thought, <<>>)),
                 !.isDirty = TRUE]

\* a variant of addThought without the check of the chain's status
ThinkingProcess_addThought_anyStatus(T, chainId, thought, type, opt) ==
    IF chainId \notin DOMAIN T.chains
    THEN TrackerOutcome(T, Failure("addThought", "Thought chain not found"))
    ELSE IF trim(thought) = EmptyText
    THEN TrackerOutcome(T, Failure("addThought", "Thought text cannot be empty"))
    ELSE IF AddThoughtConfidence(opt) < ConfidenceMin
            \/ AddThoughtConfidence(opt) > ConfidenceMax
    THEN TrackerOutcome(T, Failure("addThought",
                                   "Confidence must be between 0 and 1"))
    ELSE IF Given(opt, "parentThoughtId")
            /\ opt.parentThoughtId \notin DOMAIN T.thoughts
    THEN TrackerOutcome(T, Failure("addThought", "Parent thought not found"))
    ELSE StoreThought(T, chainId, thought, type, opt)

ThinkingProcess_addThought(T, chainId, thought, type, opt) ==
    IF chainId \notin DOMAIN T.chains
    THEN TrackerOutcome(T, Failure("addThought", "Thought chain not found"))
    ELSE IF T.chains[chainId].status # "active"
    THEN TrackerOutcome(T, Failure("addThought",
                                   "Cannot add thoughts to a non-active chain"))
    ELSE IF trim(thought) = EmptyText
    THEN TrackerOutcome(T, Failure("addThought", "Thought text cannot be empty"))
    ELSE IF AddThoughtConfidence(opt) < ConfidenceMin
            \/ AddThoughtConfidence(opt) > ConfidenceMax
    THEN TrackerOutcome(T, Failure("addThought",
                                   "Confidence must be between 0 and 1"))
    ELSE IF Given(opt, "parentThoughtId")
            /\ opt.parentThoughtId \notin DOMAIN T.thoughts
    THEN TrackerOutcome(T, Failure("addThought", "Parent thought not found"))
    ELSE StoreThought(T, chainId, thought, type, opt)

\* String.prototype.substring(0, n)
substring0(s, n) == SubSeq(s, 1, Min(n, Len(s)))

BranchGoalPrefix == 50

\* a variant of branchThought that passes the thought as the parent of the
\* new one
ThinkingProcess_branchThought_linked(T, thoughtId, newThought, opt) ==
    IF thoughtId \notin DOMAIN T.thoughts
    THEN TrackerOutcome(T, Failure("branchThought", "Thought not found"))
    ELSE IF T.thoughts[thoughtId].parent_chain \notin DOMAIN T.chains
    THEN TrackerOutcome(T, Failure("branchThought", "Parent chain not found"))
    ELSE LET originalThought == T.thoughts[thoughtId]
             chain == T.chains[originalThought.parent_chain]
             branchChainId == UUID(T.uuidCount + 1)
             branchChain ==
                 [id |-> branchChainId,
                  goal |-> <<"Branch from: ">>
                               \o substring0(originalThought.text, BranchGoalPrefix)
                               \o <<"...">>,
                  context |-> chain.goal, created_at |-> now,
                  status |-> "active", thoughts |-> <<>>, branches |-> <<>>,
                  cognitive_mode |-> T.currentMode]
             \* the new chain is stored and registered before addThought runs
             T1 == [T EXCEPT
                       !.chains = Put([@ EXCEPT ![chain.id].branches =
                                                    Append(@, branchChainId)],
                                      branchChainId, branchChain),
                       !.uuidCount = @ + 1]
             result == ThinkingProcess_addThought(
                           T1, branchChainId, newThought,
                           IF "type" \in DOMAIN opt THEN opt.type ELSE "hypothesis",
                           [parentThoughtId |-> thoughtId,
                            confidence |->
                               IF "confidence" \in DOMAIN opt
                               THEN opt.confidence ELSE DefaultBranchConfidence])
         IN  [result EXCEPT !.ret.op = "branchThought"]

ThinkingProcess_branchThought(T, thoughtId, newThought, opt) ==
    IF thoughtId \notin DOMAIN T.thoughts
    THEN TrackerOutcome(T, Failure("branchThought", "Thought not found"))
    ELSE IF T.thoughts[thoughtId].parent_chain \notin DOMAIN T.chains
    THEN TrackerOutcome(T, Failure("branchThought", "Parent chain not found"))
    ELSE LET originalThought == T.thoughts[thoughtId]
             chain == T.chains[originalThought.parent_chain]
             branchChainId == UUID(T.uuidCount + 1)
             branchChain ==
                 [id |-> branchChainId,
                  goal |-> <<"Branch from: ">>
                               \o substring0(originalThought.text, BranchGoalPrefix)
                               \o <<"...">>,
                  context |-> chain.goal, created_at |-> now,
                  status |-> "active", thoughts |-> <<>>, branches |-> <<>>,
                  cognitive_mode |-> T.currentMode]
             \* the new chain is stored and registered before addThought runs
             T1 == [T EXCEPT
                       !.chains = Put([@ EXCEPT ![chain.id].branches =
                                                    Append(@, branchChainId)],
                                      branchChainId, branchChain),
                       !.uuidCount = @ + 1]
             result == ThinkingProcess_addThought(
                           T1, branchChainId, newThought,
                           IF "type" \in DOMAIN opt THEN opt.type ELSE "hypothesis",
                           [confidence |->
                               IF "confidence" \in DOMAIN opt
                               THEN opt.confidence ELSE DefaultBranchConfidence])
         IN  [result EXCEPT !.ret.op = "branchThought"]

ThinkingProcess_evaluateThought(T, thoughtId, confidence, reasoning) ==
    IF thoughtId \notin DOMAIN T.thoughts
    THEN TrackerOutcome(T, Failure("evaluateThought", "Thought not found"))
    ELSE IF confidence < ConfidenceMin \/ confidence > ConfidenceMax
    THEN TrackerOutcome(T, Failure("evaluateThought",
                                   "Confidence must be between 0 and 1"))
    ELSE TrackerOutcome(
             [T EXCEPT
                 !.thoughts[thoughtId].confidence = confidence,
                 !.thoughts[thoughtId].metadata.lastAccessed = now,
                 !.thoughts[thoughtId].metadata.accessCount = @ + 1,
                 !.thoughts[thoughtId].associations =
                     IF reasoning # EmptyText
                     THEN Append(@, <<"reasoning:">> \o reasoning)
                     ELSE @],
             Success("evaluateThought", <<>>))

\* chain.thoughts.map((id) => `thought:${id}`)
RECURSIVE thoughtTags(_)
thoughtTags(ids) ==
    IF ids = <<>> THEN <<>> ELSE <<"thought:" \o Head(ids)>> \o thoughtTags(Tail(ids))

\* a variant of completeThoughtProcess that records the summary without
\* associations
ThinkingProcess_completeThoughtProcess_noTags(T, chainId, conclusion) ==
    IF chainId \notin DOMAIN T.chains
    THEN TrackerOutcome(T, Failure("completeThoughtProcess",
                                   "Thought chain not found"))
    ELSE IF trim(conclusion) = EmptyText
    THEN TrackerOutcome(T, Failure("completeThoughtProcess",
                                   "Conclusion cannot be empty"))
    ELSE LET chain == T.chains[chainId]
             completed == Put(Put(chain, "status", "completed"),
                              "completed_at", now)
             \* every thought of chain.thoughts that is active becomes completed
             marked == [t \in DOMAIN T.thoughts |->
                           IF t \in Range(chain.thoughts)
                              /\ T.thoughts[t].status = "active"
                           THEN [T.thoughts[t] EXCEPT !.status = "completed"]
                           ELSE T.thoughts[t]]
             memoryText == <<"[Thought Chain] ">> \o chain.goal
                               \o <<"\nConclusion: ">> \o conclusion
             \* the response of add is not looked at
             g == LongTermMemory_add(memoryText, <<>>)
         IN  [chains |-> Put(T.chains, chainId, completed),
              thoughts |-> marked,
              currentMode |-> T.currentMode,
              uuidCount |-> g.uuidCount,
              nodes |-> g.nodes,
              isDirty |-> g.isDirty,
              ret |-> Success("completeThoughtProcess", <<>>)]

\* a variant of completeThoughtProcess that also completes the thoughts of
\* the chain's branches
ThinkingProcess_completeThoughtProcess_branches(T, chainId, conclusion) ==
    IF chainId \notin DOMAIN T.chains
    THEN TrackerOutcome(T, Failure("completeThoughtProcess",
                                   "Thought chain not found"))
    ELSE IF trim(conclusion) = EmptyText
    THEN TrackerOutcome(T, Failure("completeThoughtProcess",
                                   "Conclusion cannot be empty"))
    ELSE LET chain == T.chains[chainId]
             completed == Put(Put(chain, "status", "completed"),
                              "completed_at", now)
             \* every thought of chain.thoughts that is active becomes completed
             marked == [t \in DOMAIN T.thoughts |->
                           IF (\/ t \in Range(chain.thoughts)
                               \/ T.thoughts[t].parent_chain \in Range(chain.branches))
                              /\ T.thoughts[t].status = "active"
                           THEN [T.thoughts[t] EXCEPT !.status = "completed"]
                           ELSE T.thoughts[t]]
             memoryText == <<"[Thought Chain] ">> \o chain.goal
                               \o <<"\nConclusion: ">> \o conclusion
             \* the response of add is not looked at
             g == LongTermMemory_add(memoryText, thoughtTags(chain.thoughts))
         IN  [chains |-> Put(T.chains, chainId, completed),
              thoughts |-> marked,
              currentMode |-> T.currentMode,
              uuidCount |-> g.uuidCount,
              nodes |-> g.nodes,
              isDirty |-> g.isDirty,
              ret |-> Success("completeThoughtProcess", <<>>)]

\* a variant of completeThoughtProcess that leaves the thoughts as they are
ThinkingProcess_completeThoughtProcess_keepsActive(T, chainId, conclusion) ==
    IF chainId \notin DOMAIN T.chains
    THEN TrackerOutcome(T, Failure("completeThoughtProcess",
                                   "Thought chain not found"))
    ELSE IF trim(conclusion) = EmptyText
    THEN TrackerOutcome(T, Failure("completeThoughtProcess",
                                   "Conclusion cannot be empty"))
    ELSE LET chain == T.chains[chainId]
             completed == Put(Put(chain, "status", "completed"),
                              "completed_at", now)
             marked == T.thoughts
             memoryText == <<"[Thought Chain] ">> \o chain.goal
                               \o <<"\nConclusion: ">> \o conclusion
             \* the response of add is not looked at
             g == LongTermMemory_add(memoryText, thoughtTags(chain.thoughts))
         IN  [chains |-> Put(T.chains, chainId, completed),
              thoughts |-> marked,
              currentMode |-> T.currentMode,
              uuidCount |-> g.uuidCount,
              nodes |-> g.nodes,
              isDirty |-> g.isDirty,
              ret |-> Success("completeThoughtProcess", <<>>)]

ThinkingProcess_completeThoughtProcess(T, chainId, conclusion) ==
    IF chainId \notin DOMAIN T.chains
    THEN TrackerOutcome(T, Failure("completeThoughtProcess",
                                   "Thought chain not found"))
    ELSE IF trim(conclusion) = EmptyText
    THEN TrackerOutcome(T, Failure("completeThoughtProcess",
                                   "Conclusion cannot be empty"))
    ELSE LET chain == T.chains[chainId]
             completed == Put(Put(chain, "status", "completed"),
                              "completed_at", now)
             \* every thought of chain.thoughts that is active becomes completed
             marked == [t \in DOMAIN T.thoughts |->
                           IF t \in Range(chain.thoughts)
                              /\ T.thoughts[t].status = "active"
                           THEN [T.thoughts[t] EXCEPT !.status = "completed"]
                           ELSE T.thoughts[t]]
             memoryText == <<"[Thought Chain] ">> \o chain.goal
                               \o <<"\nConclusion: ">> \o conclusion
             \* the response of add is not looked at
             g == LongTermMemory_add(memoryText, thoughtTags(chain.thoughts))
         IN  [chains |-> Put(T.chains, chainId, completed),
              thoughts |-> marked,
              currentMode |-> T.currentMode,
              uuidCount |-> g.uuidCount,
              nodes |-> g.nodes,
              isDirty |-> g.isDirty,
              ret |-> Success("completeThoughtProcess", <<>>)]

\* getThinkingProgress: the counts it reports for an existing chain
ThinkingProcess_getThinkingProgress(T, chainId) ==
    LET chain == T.chains[chainId]
        \* chain.thoughts.map(get).filter(t => t !== undefined)
        found == SelectSeq(chain.thoughts, LAMBDA id : id \in DOMAIN T.thoughts)
        count(status) ==
            Len(SelectSeq(found, LAMBDA id : T.thoughts[id].status = status))
    IN  [totalThoughts |-> Len(found),
         completedThoughts |-> count("completed"),
         activeThoughts |-> count("active")]

ThinkingProcess_pauseThinking(T, chainId, reason) ==
    IF chainId \notin DOMAIN T.chains
    THEN TrackerOutcome(T, Failure("pauseThinking", "Thought chain not found"))
    ELSE LET chain == T.chains[chainId]
             \* chain.context || ''
             context == IF "context" \in DOMAIN chain THEN chain.context
                        ELSE EmptyText
             paused == Put(Put(chain, "status", "paused"), "context",
                           context \o <<"\n[Paused: ">> \o reason \o <<"]">>)
         IN  TrackerOutcome([T EXCEPT !.chains = Put(@, chainId, paused)],
                            Success("pauseThinking", <<>>))

\* a variant of resumeThinking without the check of the status
ThinkingProcess_resumeThinking_anyStatus(T, chainId) ==
    IF chainId \notin DOMAIN T.chains
    THEN TrackerOutcome(T, Failure("resumeThinking", "Thought chain not found"))
    ELSE TrackerOutcome([T EXCEPT !.chains[chainId].status = "active"],
                        Success("resumeThinking", <<>>))

ThinkingProcess_resumeThinking(T, chainId) ==
    IF chainId \notin DOMAIN T.chains
    THEN TrackerOutcome(T, Failure("resumeThinking", "Thought chain not found"))
    ELSE IF T.chains[chainId].status # "paused"
    THEN TrackerOutcome(T, Failure("resumeThinking",
                                   "Can only resume paused chains"))
    ELSE TrackerOutcome([T EXCEPT !.chains[chainId].status = "active"],
                        Success("resumeThinking", <<>>))

\* a variant of switchCognitiveMode in which the chains follow the global
\* mode
ThinkingProcess_switchCognitiveMode_live(T, mode, opt) ==
    LET T1 == [T EXCEPT !.currentMode = mode,
                        !.chains = [c \in DOMAIN @ |->
                                       [@[c] EXCEPT !.cognitive_mode = mode]]]
    IN  IF Given(opt, "chainId") /\ opt.chainId \notin DOMAIN T1.chains
        THEN TrackerOutcome(T1, Failure("switchCognitiveMode",
                                        "Thought chain not found"))
        ELSE TrackerOutcome(T1, Success("switchCognitiveMode", <<>>))

\* a variant of switchCognitiveMode that looks the chain up before it sets
\* the global mode
ThinkingProcess_switchCognitiveMode_lookupFirst(T, mode, opt) ==
    LET T1 == [T EXCEPT !.currentMode = mode]
    IN  IF Given(opt, "chainId")
        THEN IF opt.chainId \notin DOMAIN T.chains
             THEN TrackerOutcome(T, Failure("switchCognitiveMode",
                                            "Thought chain not found"))
             ELSE TrackerOutcome(
                      [T1 EXCEPT !.chains[opt.chainId].cognitive_mode = mode],
                      Success("switchCognitiveMode", <<>>))
        ELSE TrackerOutcome(T1, Success("switchCognitiveMode", <<>>))

ThinkingProcess_switchCognitiveMode(T, mode, opt) ==
    LET \* this.currentMode = mode, before the chain is looked up
        T1 == [T EXCEPT !.currentMode = mode]
    IN  IF Given(opt, "chainId")
        THEN IF opt.chainId \notin DOMAIN T1.chains
             THEN TrackerOutcome(T1, Failure("switchCognitiveMode",
                                             "Thought chain not found"))
             ELSE TrackerOutcome(
                      [T1 EXCEPT !.chains[opt.chainId].cognitive_mode = mode],
                      Success("switchCognitiveMode", <<>>))
        ELSE TrackerOutcome(T1, Success("switchCognitiveMode", <<>>))

(***************************************************************************)
(* ShortTermMemory: the scratch buffer.  Each method is an operator giving *)
(* the outcome of the call: the entries and the capacity after it, and the *)
(* response.                                                               *)
(***************************************************************************)
ScratchOutcome(entries, cap, response) ==
    [memories |-> entries, capacity |-> cap, ret |-> response]

ShortTermMemory_add(text) ==
    IF trim(text) = EmptyText
    THEN ScratchOutcome(memories, capacity,
                        Failure("add", "Memory text cannot be empty"))
    ELSE LET pushed == Append(memories, [text |-> trim(text), timestamp |-> now])
         IN  ScratchOutcome(IF Len(pushed) > capacity THEN Tail(pushed) ELSE pushed,
                            capacity, Success("add", <<>>))

\* [...this.memories].reverse()
reverse(s) == [i \in DOMAIN s |-> s[Len(s) + 1 - i]]

ShortTermMemory_getAll ==
    ScratchOutcome(memories, capacity, Success("getAll", reverse(memories)))

ShortTermMemory_clear ==
    ScratchOutcome(<<>>, capacity, Success("clear", <<>>))

\* while (this.memories.length > this.capacity) this.memories.shift()
RECURSIVE shiftWhileOver(_, _)
shiftWhileOver(entries, cap) ==
    IF Len(entries) > cap THEN shiftWhileOver(Tail(entries), cap) ELSE entries

\* a variant of setCapacity that leaves the entries as they are
ShortTermMemory_setCapacity_noTrim(newCapacity) ==
    IF newCapacity < 1
    THEN ScratchOutcome(memories, capacity,
                        Failure("setCapacity", "Capacity must be at least 1"))
    ELSE ScratchOutcome(memories, newCapacity, Success("setCapacity", <<>>))

ShortTermMemory_setCapacity(newCapacity) ==
    IF newCapacity < 1
    THEN ScratchOutcome(memories, capacity,
                        Failure("setCapacity", "Capacity must be at least 1"))
    ELSE ScratchOutcome(shiftWhileOver(memories, newCapacity), newCapacity,
                        Success("setCapacity", <<>>))

(***************************************************************************)
(* The state after construction (new BrainMCP(), before init()).           *)
(***************************************************************************)
NoFile == [exists |-> FALSE]

DefaultCapacity == 100

\* the storage directory as an earlier run, which generated `count` ids,
\* left it
InitDisk(backup, lock, primary, secondary, count) ==
    /\ nodes = EmptyMap
    /\ isDirty = FALSE
    /\ chains = EmptyMap
    /\ thoughts = EmptyMap
    /\ currentMode = "analytical"
    /\ memories = <<>>
    /\ capacity = DefaultCapacity
    /\ uuidCount = count
    /\ now = 0
    /\ call = [op |-> "new"]
    /\ ret = NoCall
    /\ lockFile = lock
    /\ memoryFile = primary
    /\ backupFile = secondary
    /\ saves = EmptyMap
    /\ pendingSave = FALSE
    /\ timerArmed = FALSE
    /\ initialized = FALSE
    /\ enableBackup = backup
    /\ steps = 0

\* the storage directory holds no file, or the lock file that a process
\* which ended in the middle of a save left there
InitWith(backup, lock) == InitDisk(backup, lock, NoFile, NoFile, 0)

\* DEFAULT_CONFIG.enableBackup
Init == InitWith(TRUE, NoFile)

\* dt minutes pass
Advance(dt) ==
    /\ now' = now + dt
    /\ steps' = steps + 1
    /\ UNCHANGED <<nodes, isDirty, chains, thoughts, currentMode, memories,
                   capacity, uuidCount, call, ret, lockFile, memoryFile,
                   backupFile, saves, pendingSave, timerArmed, initialized,
                   enableBackup>>

Tick == Advance(1)

(***************************************************************************)
(* The graph specifications: a caller of LongTermMemory's methods, who     *)
(* chooses ids among the first B.nodes uuids, passes association lists of  *)
(* up to B.assoc ids and makes up to B.steps calls.                        *)
(***************************************************************************)
IdPool(n) == {UUID(k) : k \in 1..n}

TextInputs == {<<>>, <<" ">>, <<"a">>, <<" ", "b">>}

AssocInputs(B) == SeqsUpTo(IdPool(B.nodes), B.assoc)

DepthInputs == {EmptyMap} \cup {[depth |-> d] : d \in 0..(MaxDepth + 1)}

UpdateInputs(B) ==
    {EmptyMap}
        \cup {[newText |-> t] : t \in TextInputs}
        \cup {[newAssociations |-> a] : a \in AssocInputs(B)}
        \cup {[newText |-> t, newAssociations |-> a] :
                 t \in TextInputs, a \in AssocInputs(B)}

\* the call c, whose outcome is g, takes place
GraphCall(B, c, g) ==
    /\ steps < B.steps
    /\ call' = c
    /\ nodes' = g.nodes
    /\ isDirty' = g.isDirty
    /\ uuidCount' = g.uuidCount
    /\ ret' = g.ret
    /\ steps' = steps + 1
    /\ UNCHANGED <<chains, thoughts, currentMode, memories, capacity, now,
                   lockFile, memoryFile, backupFile, saves, pendingSave,
                   timerArmed, initialized,
                   enableBackup>>

GraphAdd(B) ==
    \E text \in TextInputs, associations \in AssocInputs(B) :
        GraphCall(B, [op |-> "add", text |-> text, associations |-> associations],
                  LongTermMemory_add(text, associations))

GraphGet(B) ==
    \E id \in IdPool(B.nodes), options \in DepthInputs :
        GraphCall(B, [op |-> "get", id |-> id, options |-> options],
                  LongTermMemory_get(id, options))

GraphUpdate(B) ==
    \E id \in IdPool(B.nodes), args \in UpdateInputs(B) :
        GraphCall(B, [op |-> "update", id |-> id, args |-> args],
                  LongTermMemory_update(id, args))

GraphDelete(B) ==
    \E id \in IdPool(B.nodes) :
        GraphCall(B, [op |-> "delete", id |-> id], LongTermMemory_delete(id))

GraphMarkClean(B) ==
    GraphCall(B, [op |-> "markClean"], LongTermMemory_markClean)

GraphTick(B) == steps < B.steps /\ Tick

NextGraph(B) ==
    \/ GraphAdd(B)
    \/ GraphGet(B)
    \/ GraphUpdate(B)
    \/ GraphDelete(B)
    \/ GraphMarkClean(B)
    \/ GraphTick(B)

\* association lists with repeated ids, four calls
GraphBounds == [nodes |-> MaxNodes, assoc |-> MaxAssoc, steps |-> MaxSteps]

SpecGraph == Init /\ [][NextGraph(GraphBounds)]_vars

\* shorter lists and runs, every input of every call
CallBounds == [nodes |-> CallNodes, assoc |-> CallAssoc, steps |-> CallSteps]

SpecGraphCalls == Init /\ [][NextGraph(CallBounds)]_vars

\* the graphs get is called on: nodes added and re-associated, then read
TravBounds == [nodes |-> TravNodes, assoc |-> TravAssoc, steps |-> TravSteps]

TravAdd ==
    \E associations \in AssocInputs(TravBounds) :
        GraphCall(TravBounds,
                  [op |-> "add", text |-> <<"a">>, associations |-> associations],
                  LongTermMemory_add(<<"a">>, associations))

TravUpdate ==
    \E id \in IdPool(TravNodes), associations \in AssocInputs(TravBounds) :
        GraphCall(TravBounds,
                  [op |-> "update", id |-> id,
                   args |-> [newAssociations |-> associations]],
                  LongTermMemory_update(id, [newAssociations |-> associations]))

TravGet ==
    \E id \in IdPool(TravNodes), options \in DepthInputs :
        GraphCall(TravBounds, [op |-> "get", id |-> id, options |-> options],
                  LongTermMemory_get(id, options))

NextTraverse ==
    \/ TravAdd
    \/ TravUpdate
    \/ TravGet

SpecTraverse == Init /\ [][NextTraverse]_vars

\* a chain of nodes, each associating only the one added before it, and the
\* reads of its nodes at every depth
ChainBounds == [nodes |-> ChainNodes, assoc |-> 1, steps |-> ChainSteps]

ChainAdd ==
    LET associations == IF uuidCount = 0 THEN <<>> ELSE <<UUID(uuidCount)>>
    IN  /\ uuidCount < ChainNodes
        /\ GraphCall(ChainBounds,
                     [op |-> "add", text |-> <<"a">>,
                      associations |-> associations],
                     LongTermMemory_add(<<"a">>, associations))

ChainGet ==
    \E id \in IdPool(ChainNodes), options \in DepthInputs :
        GraphCall(ChainBounds, [op |-> "get", id |-> id, options |-> options],
                  LongTermMemory_get(id, options))

\* the graphs search is called on: nodes with texts in both cases, some
\* deleted, and the searches with every limit
SearchBounds == [nodes |-> SearchNodes, assoc |-> 0, steps |-> SearchSteps]

SearchTexts == {<<"a">>, <<"A", "b">>, <<"b">>}

SearchOptions ==
    {EmptyMap, [caseSensitive |-> TRUE]}
        \cup {[limit |-> n] : n \in 0..SearchNodes}
        \cup {[limit |-> 1, caseSensitive |-> TRUE]}

SearchAdd ==
    \E text \in SearchTexts :
        /\ uuidCount < SearchNodes
        /\ GraphCall(SearchBounds,
                     [op |-> "add", text |-> text, associations |-> <<>>],
                     LongTermMemory_add(text, <<>>))

SearchDelete ==
    \E id \in IdPool(SearchNodes) :
        GraphCall(SearchBounds, [op |-> "delete", id |-> id],
                  LongTermMemory_delete(id))

SearchCall ==
    \E keyword \in {<<" ">>, <<"a">>, <<"B">>}, options \in SearchOptions :
        GraphCall(SearchBounds,
                  [op |-> "search", keyword |-> keyword, options |-> options],
                  LongTermMemory_search(keyword, options))

NextSearch ==
    \/ SearchAdd
    \/ SearchDelete
    \/ SearchCall

SpecSearch == Init /\ [][NextSearch]_vars

NextChain ==
    \/ ChainAdd
    \/ ChainGet

SpecChain == Init /\ [][NextChain]_vars

(***************************************************************************)
(* The scratch buffer specification: a ShortTermMemory made with a         *)
(* capacity of 1 to ScratchCapacity, and up to ScratchSteps calls of its   *)
(* methods.                                                                *)
(***************************************************************************)
\* new ShortTermMemory(c)
InitScratch ==
    /\ nodes = EmptyMap
    /\ isDirty = FALSE
    /\ chains = EmptyMap
    /\ thoughts = EmptyMap
    /\ currentMode = "analytical"
    /\ memories = <<>>
    /\ capacity \in 1..ScratchCapacity
    /\ uuidCount = 0
    /\ now = 0
    /\ call = [op |-> "new"]
    /\ ret = NoCall
    /\ lockFile = NoFile
    /\ memoryFile = NoFile
    /\ backupFile = NoFile
    /\ saves = EmptyMap
    /\ pendingSave = FALSE
    /\ timerArmed = FALSE
    /\ initialized = FALSE
    /\ enableBackup = TRUE
    /\ steps = 0

\* the call c, whose outcome is o, takes place
ScratchCall(c, o) ==
    /\ steps < ScratchSteps
    /\ call' = c
    /\ memories' = o.memories
    /\ capacity' = o.capacity
    /\ ret' = o.ret
    /\ steps' = steps + 1
    /\ UNCHANGED <<nodes, isDirty, chains, thoughts, currentMode, uuidCount,
                   now, lockFile, memoryFile, backupFile, saves, pendingSave,
                   timerArmed, initialized, enableBackup>>

ScratchTexts == {<<" ">>, <<"a">>, <<"b", " ">>}

ScratchAdd ==
    \E text \in ScratchTexts :
        ScratchCall([op |-> "add", text |-> text], ShortTermMemory_add(text))

ScratchGetAll == ScratchCall([op |-> "getAll"], ShortTermMemory_getAll)

ScratchClear == ScratchCall([op |-> "clear"], ShortTermMemory_clear)

ScratchSetCapacity ==
    \E newCapacity \in (-1)..ScratchCapacity :
        ScratchCall([op |-> "setCapacity", newCapacity |-> newCapacity],
                    ShortTermMemory_setCapacity(newCapacity))

NextScratch ==
    \/ ScratchAdd
    \/ ScratchGetAll
    \/ ScratchClear
    \/ ScratchSetCapacity

SpecScratch == InitScratch /\ [][NextScratch]_vars

(***************************************************************************)
(* The tracker specification: a caller of ThinkingProcess's methods, who   *)
(* chooses ids among the first ThinkIds uuids and makes up to ThinkSteps   *)
(* calls.  The clock stands still: the tracker only stores the time.       *)
(***************************************************************************)
ThinkTexts == {<<" ">>, <<"t">>}

ConfidenceInputs == {-1, 5, 11}

ModeInputs == {"analytical", "creative"}

\* the call c, whose outcome is o, takes place
TrackerCall(c, o) ==
    /\ steps < ThinkSteps
    /\ call' = c
    /\ chains' = o.chains
    /\ thoughts' = o.thoughts
    /\ currentMode' = o.currentMode
    /\ uuidCount' = o.uuidCount
    /\ nodes' = o.nodes
    /\ isDirty' = o.isDirty
    /\ ret' = o.ret
    /\ steps' = steps + 1
    /\ UNCHANGED <<memories, capacity, now, lockFile, memoryFile, backupFile,
                   saves, pendingSave, timerArmed, initialized,
                   enableBackup>>

ThinkStart ==
    \E goal \in ThinkTexts, opt \in {EmptyMap, [context |-> <<"c", " ">>]} :
        TrackerCall([op |-> "startThoughtProcess", goal |-> goal, opt |-> opt],
                    ThinkingProcess_startThoughtProcess(Tracker, goal, opt))

AddThoughtOptions ==
    {EmptyMap}
        \cup {[confidence |-> c] : c \in {-1, 11}}
        \cup {[parentThoughtId |-> p] : p \in IdPool(ThinkIds) \cup {""}}
        \cup {[parentThoughtId |-> p, confidence |-> 5] : p \in IdPool(ThinkIds)}

ThinkAdd ==
    \E chainId \in IdPool(ThinkIds), thought \in ThinkTexts,
       opt \in AddThoughtOptions :
        TrackerCall([op |-> "addThought", chainId |-> chainId,
                     thought |-> thought, opt |-> opt],
                    ThinkingProcess_addThought(Tracker, chainId, thought,
                                               "analysis", opt))

ThinkBranch ==
    \E thoughtId \in IdPool(ThinkIds), newThought \in ThinkTexts,
       opt \in {EmptyMap, [confidence |-> 11]} :
        TrackerCall([op |-> "branchThought", thoughtId |-> thoughtId,
                     thought |-> newThought, opt |-> opt],
                    ThinkingProcess_branchThought(Tracker, thoughtId,
                                                  newThought, opt))

ThinkEvaluate ==
    \E thoughtId \in IdPool(ThinkIds), confidence \in ConfidenceInputs,
       reasoning \in {EmptyText, <<"r">>} :
        TrackerCall([op |-> "evaluateThought", thoughtId |-> thoughtId,
                     confidence |-> confidence, reasoning |-> reasoning],
                    ThinkingProcess_evaluateThought(Tracker, thoughtId,
                                                    confidence, reasoning))

ThinkComplete ==
    \E chainId \in IdPool(ThinkIds), conclusion \in ThinkTexts :
        TrackerCall([op |-> "completeThoughtProcess", chainId |-> chainId,
                     conclusion |-> conclusion],
                    ThinkingProcess_completeThoughtProcess(Tracker, chainId,
                                                           conclusion))

ThinkPause ==
    \E chainId \in IdPool(ThinkIds) :
        TrackerCall([op |-> "pauseThinking", chainId |-> chainId],
                    ThinkingProcess_pauseThinking(Tracker, chainId, <<"p">>))

ThinkResume ==
    \E chainId \in IdPool(ThinkIds) :
        TrackerCall([op |-> "resumeThinking", chainId |-> chainId],
                    ThinkingProcess_resumeThinking(Tracker, chainId))

ThinkSwitch ==
    \E mode \in ModeInputs,
       opt \in {EmptyMap} \cup {[chainId |-> c] : c \in IdPool(ThinkIds)} :
        TrackerCall([op |-> "switchCognitiveMode", mode |-> mode, opt |-> opt],
                    ThinkingProcess_switchCognitiveMode(Tracker, mode, opt))

NextThink ==
    \/ ThinkStart
    \/ ThinkAdd
    \/ ThinkBranch
    \/ ThinkEvaluate
    \/ ThinkComplete
    \/ ThinkPause
    \/ ThinkResume
    \/ ThinkSwitch

SpecThink == Init /\ [][NextThink]_vars

(***************************************************************************)
(* Properties of the graph.                                                *)
(***************************************************************************)
\* a call was made in this step
Called == steps' = steps + 1

AllBlank(text) == \A i \in DOMAIN text : text[i] = " "

\* C1: after any sequence of add, update and delete calls, every id in every
\* stored node's associations list is the id of a node in the node map
\* (lists with repeated ids and self-references included).
C1_AssociationsExist ==
    \A k \in DOMAIN nodes :
        \A i \in DOMAIN nodes[k].associations :
            nodes[k].associations[i] \in DOMAIN nodes

\* C2: add called with empty or whitespace text, or with an association list
\* holding an unknown id, returns failure and changes neither the node map
\* nor the dirty flag.
C2_FailedAddChangesNothing ==
    [][(/\ Called
        /\ call'.op = "add"
        /\ \/ AllBlank(call'.text)
           \/ \E i \in DOMAIN call'.associations :
                  call'.associations[i] \notin DOMAIN nodes)
       => (/\ ~ret'.ok
           /\ nodes' = nodes
           /\ isDirty' = isDirty)]_vars

\* a failed add with a non-empty text and an unknown association, on a
\* non-empty clean graph
C2_Witness ==
    /\ call.op = "add"
    /\ ~ret.ok
    /\ ~AllBlank(call.text)
    /\ \E i \in DOMAIN call.associations :
           call.associations[i] \notin DOMAIN nodes
    /\ DOMAIN nodes # {}
    /\ ~isDirty

\* C3: an update that fails because an association id is unknown leaves the
\* node map (text, associations, lastAccessed) and the dirty flag as they
\* were, also when a valid newText was passed.
C3_FailedUpdateChangesNothing ==
    [][(/\ Called
        /\ call'.op = "update"
        /\ ~ret'.ok
        /\ ret'.error = "Associated node not found")
       => (/\ nodes' = nodes
           /\ isDirty' = isDirty)]_vars

\* the nodes at most d association edges away from the nodes of S
RECURSIVE WithinHops(_, _)
WithinHops(S, d) ==
    IF d = 0
    THEN S
    ELSE WithinHops(
             S \cup {a \in DOMAIN nodes :
                        \E k \in S \cap DOMAIN nodes :
                            \E i \in DOMAIN nodes[k].associations :
                                nodes[k].associations[i] = a},
             d - 1)

\* C5: for every graph and every depth d in 0..3, a successful get(id, d)
\* returns exactly the nodes other than id that are at most d association
\* edges away from id, each once and never id itself.
C5_GetReturnsReachable ==
    (/\ call.op = "get"
     /\ ret.ok
     /\ "depth" \in DOMAIN call.options
     /\ call.options.depth \in 0..3)
    => LET result == Tail(ret.data)
       IN  /\ Range(result) = WithinHops({call.id}, call.options.depth) \ {call.id}
           /\ Cardinality(Range(result)) = Len(result)

(***************************************************************************)
(* Properties of the tracker and of failing calls.                         *)
(***************************************************************************)
\* C4: a public operation of the graph, the tracker or the scratch buffer
\* that returns failure leaves the node map, the dirty flag, the chain map,
\* the thought map, the tracker's mode and the scratch buffer as they were.
C4_FailureChangesNothing ==
    [][(Called /\ ~ret'.ok)
       => UNCHANGED <<nodes, isDirty, chains, thoughts, currentMode,
                      memories, capacity>>]_vars

\* C6: addThought on a paused or completed chain returns failure and leaves
\* the chain map and the thought map as they were; a chain gains a thought
\* only while its status is active.
C6_AddThoughtNeedsActive ==
    [][/\ (/\ Called
           /\ call'.op = "addThought"
           /\ call'.chainId \in DOMAIN chains
           /\ chains[call'.chainId].status \in {"paused", "completed"})
          => (/\ ~ret'.ok
              /\ chains' = chains
              /\ thoughts' = thoughts)
       /\ \A c \in DOMAIN chains' :
              IF c \in DOMAIN chains
              THEN Len(chains'[c].thoughts) > Len(chains[c].thoughts)
                       => chains[c].status = "active"
              ELSE chains'[c].thoughts # <<>>
                       => chains'[c].status = "active"]_vars

\* addThought, with an existing parent thought, refused on a chain that is
\* not active and already holds a thought
C6_Witness ==
    /\ call.op = "addThought"
    /\ ~ret.ok
    /\ call.chainId \in DOMAIN chains
    /\ chains[call.chainId].status \in {"paused", "completed"}
    /\ chains[call.chainId].thoughts # <<>>
    /\ ~AllBlank(call.thought)
    /\ "parentThoughtId" \in DOMAIN call.opt
    /\ call.opt.parentThoughtId \in DOMAIN thoughts

\* C7: the status completed is terminal: no operation changes the status of
\* a completed chain.
C7_CompletedIsTerminal ==
    [][\A c \in DOMAIN chains :
           chains[c].status = "completed" => chains'[c].status = "completed"]_vars

(***************************************************************************)
(* StorageManager and BrainMCP.save.                                       *)
(* A save call in flight is an entry of `saves`: where it stands (pc), the *)
(* keys of the Map that getAllNodes copied, the nodes deleted from the     *)
(* graph since (the copy still refers to those objects), and whether the   *)
(* auto-save timer started it.  Each await on a file operation is one      *)
(* step; what runs between two awaits is part of the step before.          *)
(***************************************************************************)
StaleLockAge == 5

File(data) == [exists |-> TRUE, data |-> data]

LockFileOf(owner, stamp) ==
    [exists |-> TRUE, mtime |-> now, content |-> stamp, owner |-> owner]

\* A JSON text is the tree of values it denotes: strings, numbers, arrays
\* (sequences of values) and objects (sequences of <<key, value>> members,
\* in the order they are written).
JString(x) == [t |-> "string", v |-> x]

JNumber(n) == [t |-> "number", v |-> n]

JArray(items) == [t |-> "array", v |-> items]

JObject(members) == [t |-> "object", v |-> members]

\* a text JSON.parse rejects
Corrupt == [t |-> "corrupt"]

\* the text {} : it parses, and has no memories
NoMemories == JObject(<<>>)

Keys(object) == {object.v[i][1] : i \in DOMAIN object.v}

\* the value of the last member with that key
Member(object, key) ==
    LET at == {i \in DOMAIN object.v : object.v[i][1] = key}
    IN  object.v[CHOOSE i \in at : \A j \in at : j <= i][2]

stringifyNode(node) ==
    JObject(<< <<"id", JString(node.id)>>,
               <<"text", JString(node.text)>>,
               <<"associations",
                 JArray([i \in DOMAIN node.associations |->
                            JString(node.associations[i])])>>,
               <<"metadata",
                 JObject(<< <<"createdAt", JString(node.metadata.createdAt)>>,
                            <<"lastAccessed", JString(node.metadata.lastAccessed)>>,
                            <<"accessCount", JNumber(node.metadata.accessCount)>> >>)>> >>)

\* JSON.stringify of the Map itself, without Object.fromEntries: {}
stringify_ofMap(memoryGraph) ==
    JObject(<< <<"memories", JObject(<<>>)>> >>)

\* JSON.stringify({memories: Object.fromEntries(nodes)}, null, 2)
stringify(memoryGraph) ==
    LET ids == Entries(memoryGraph.memories)
    IN  JObject(<< <<"memories",
                     JObject([i \in DOMAIN ids |->
                                 <<ids[i], stringifyNode(memoryGraph.memories[ids[i]])>>])>> >>)

\* JSON.parse of a text that parses
RECURSIVE parse(_)
parse(data) ==
    IF data.t = "object"
    THEN [key \in Keys(data) |-> parse(Member(data, key))]
    ELSE IF data.t = "array"
    THEN [i \in DOMAIN data.v |-> parse(data.v[i])]
    ELSE data.v

\* readFile, JSON.parse and the check of the structure succeed: the text
\* parses to an object whose memories is an object
Parses(file) ==
    /\ file.exists
    /\ file.data.t = "object"
    /\ "memories" \in Keys(file.data)
    /\ Member(file.data, "memories").t \in {"object", "array"}

\* loadNodes: the Map of the entries of `memories`, and the flag cleared
LongTermMemory_loadNodes(loaded) ==
    GraphOutcome([id \in DOMAIN loaded |-> loaded[id]], FALSE, uuidCount,
                 Success("loadNodes", <<>>))

\* the node objects the copied Map refers to, as they are now
SnapshotNodes(sv) ==
    [id \in sv.keys |->
        IF id \in DOMAIN sv.detached THEN sv.detached[id] ELSE nodes[id]]

StorageManager_loadBackup ==
    IF ~enableBackup
    THEN Failure("loadBackup", "Backup is disabled")
    ELSE IF Parses(backupFile)
    THEN [Success("loadBackup", <<>>) EXCEPT !.data = parse(backupFile.data)]
    ELSE Failure("loadBackup", "Failed to load backup")

\* load that takes an absent primary file for a failure
StorageManager_load_absentFails ==
    IF Parses(memoryFile)
    THEN [Success("load", <<>>) EXCEPT !.data = parse(memoryFile.data)]
    ELSE IF StorageManager_loadBackup.ok
    THEN StorageManager_loadBackup
    ELSE Failure("load", "Failed to load memory")

StorageManager_load ==
    IF ~memoryFile.exists
    THEN [Success("load", <<>>) EXCEPT !.data = [memories |-> EmptyMap]]
    ELSE IF Parses(memoryFile)
    THEN [Success("load", <<>>) EXCEPT !.data = parse(memoryFile.data)]
    ELSE IF StorageManager_loadBackup.ok
    THEN StorageManager_loadBackup
    ELSE Failure("load", "Failed to load memory")

\* BrainMCP.init: storage.init, load, loadNodes, startAutoSave
BrainMCP_init ==
    /\ call' = [op |-> "init"]
    /\ IF initialized
       THEN /\ ret' = Failure("init", "Memory system already initialized")
            /\ UNCHANGED <<nodes, isDirty, timerArmed, initialized>>
       ELSE IF ~StorageManager_load.ok
       THEN /\ ret' = Failure("init", "Failed to load memory")
            /\ UNCHANGED <<nodes, isDirty, timerArmed, initialized>>
       ELSE /\ nodes' = LongTermMemory_loadNodes(StorageManager_load.data.memories).nodes
            /\ isDirty' = LongTermMemory_loadNodes(StorageManager_load.data.memories).isDirty
            /\ timerArmed' = TRUE
            /\ initialized' = TRUE
            /\ ret' = Success("init", <<>>)
    /\ UNCHANGED <<chains, thoughts, currentMode, memories, capacity,
                   uuidCount, now, lockFile, memoryFile, backupFile, saves,
                   pendingSave, enableBackup, steps>>

\* a variant of the start of BrainMCP.save without the check of the dirty
\* flag
BrainMCP_save_start_always(ns, dirty, sid, byTimer) ==
    IF ~initialized
    THEN saves
    ELSE Put(saves, sid,
             [pc |-> "access", timer |-> byTimer, keys |-> DOMAIN ns,
              detached |-> EmptyMap, stamp |-> 0, written |-> FALSE,
              before |-> [primary |-> memoryFile, backup |-> backupFile]])

\* BrainMCP.save up to its first await (fs.access in isLocked), called when
\* the graph is `ns` and its dirty flag `dirty`: the saves in flight after it
BrainMCP_save_start(ns, dirty, sid, byTimer) ==
    IF ~initialized \/ ~dirty
    THEN saves
    ELSE Put(saves, sid,
             [pc |-> "access", timer |-> byTimer, keys |-> DOMAIN ns,
              detached |-> EmptyMap, stamp |-> 0, written |-> FALSE,
              before |-> [primary |-> memoryFile, backup |-> backupFile]])

\* a save call returns: BrainMCP.save marks the graph clean after a success,
\* and the timer's callback releases its guard
SaveReturns(s, response) ==
    /\ saves' = [x \in DOMAIN saves \ {s} |-> saves[x]]
    /\ call' = [op |-> "save", save |-> s, timer |-> saves[s].timer]
    /\ ret' = response
    /\ isDirty' = IF response.ok THEN FALSE ELSE isDirty
    /\ pendingSave' = IF saves[s].timer THEN FALSE ELSE pendingSave

SaveGoes(s, pc) ==
    /\ saves' = [saves EXCEPT ![s].pc = pc]
    /\ UNCHANGED <<call, ret, isDirty, pendingSave>>

SaveFrame ==
    UNCHANGED <<nodes, chains, thoughts, currentMode, memories, capacity,
                uuidCount, now, timerArmed, initialized, enableBackup>>

\* a file operation works, or the file system fails it
Works == UNCHANGED steps

Fails == steps < StoreSteps /\ steps' = steps + 1

\* isLocked: await fs.access(lockFilePath)
StorageManager_isLocked_access(s) ==
    /\ saves[s].pc = "access"
    /\ IF lockFile.exists
       THEN SaveGoes(s, "stat")
       ELSE \* isLocked is false: createLock takes Date.now()
            /\ saves' = [saves EXCEPT ![s].pc = "createLock", ![s].stamp = now]
            /\ UNCHANGED <<call, ret, isDirty, pendingSave>>
    /\ UNCHANGED <<lockFile, memoryFile, backupFile>>
    /\ Works
    /\ SaveFrame

\* isLocked without the age of the lock: every lock file locks
StorageManager_isLocked_stat_anyAge(s) ==
    /\ saves[s].pc = "stat"
    /\ IF ~lockFile.exists
       THEN /\ saves' = [saves EXCEPT ![s].pc = "createLock", ![s].stamp = now]
            /\ UNCHANGED <<call, ret, isDirty, pendingSave>>
       ELSE SaveReturns(s, Failure("save", "Storage is locked by another process"))
    /\ UNCHANGED <<lockFile, memoryFile, backupFile>>
    /\ Works
    /\ SaveFrame

\* isLocked: await fs.stat(lockFilePath), then the age of the lock
StorageManager_isLocked_stat(s) ==
    /\ saves[s].pc = "stat"
    /\ IF ~lockFile.exists
       THEN /\ saves' = [saves EXCEPT ![s].pc = "createLock", ![s].stamp = now]
            /\ UNCHANGED <<call, ret, isDirty, pendingSave>>
       ELSE IF now - lockFile.mtime > StaleLockAge
       THEN SaveGoes(s, "unlinkStale")
       ELSE SaveReturns(s, Failure("save", "Storage is locked by another process"))
    /\ UNCHANGED <<lockFile, memoryFile, backupFile>>
    /\ Works
    /\ SaveFrame

\* isLocked: await this.removeLock() of a stale lock
StorageManager_isLocked_removeLock(s) ==
    /\ saves[s].pc = "unlinkStale"
    /\ lockFile' = NoFile
    /\ saves' = [saves EXCEPT ![s].pc = "createLock", ![s].stamp = now]
    /\ UNCHANGED <<call, ret, isDirty, pendingSave, memoryFile, backupFile>>
    /\ Works
    /\ SaveFrame

\* createLock: await fs.writeFile(lockFilePath, Date.now().toString())
StorageManager_createLock(s) ==
    /\ saves[s].pc = "createLock"
    /\ \/ /\ lockFile' = LockFileOf(s, saves[s].stamp)
          /\ SaveGoes(s, IF enableBackup THEN "backupAccess" ELSE "write")
          /\ Works
       \/ \* the write fails: the outer catch
          /\ UNCHANGED lockFile
          /\ SaveGoes(s, "catch")
          /\ Fails
    /\ UNCHANGED <<memoryFile, backupFile>>
    /\ SaveFrame

\* save: await fs.access(memoryFilePath) before the backup copy
StorageManager_save_access(s) ==
    /\ saves[s].pc = "backupAccess"
    /\ SaveGoes(s, IF memoryFile.exists THEN "copy" ELSE "write")
    /\ UNCHANGED <<lockFile, memoryFile, backupFile>>
    /\ Works
    /\ SaveFrame

\* save: await fs.copyFile(memoryFilePath, backupFilePath); a failure is
\* caught and the save goes on
StorageManager_save_copyFile(s) ==
    /\ saves[s].pc = "copy"
    /\ \/ /\ backupFile' = IF memoryFile.exists THEN memoryFile ELSE backupFile
          /\ Works
       \/ /\ UNCHANGED backupFile
          /\ Fails
    /\ SaveGoes(s, "write")
    /\ UNCHANGED <<lockFile, memoryFile>>
    /\ SaveFrame

\* save: JSON.stringify of the copied Map and await fs.writeFile; a failed
\* write leaves the file as it was or cut short
StorageManager_save_writeFile(s) ==
    /\ saves[s].pc = "write"
    /\ \/ /\ memoryFile' = File(stringify([memories |-> SnapshotNodes(saves[s])]))
          /\ saves' = [saves EXCEPT ![s].pc = "finally", ![s].written = TRUE]
          /\ Works
       \/ /\ memoryFile' \in {memoryFile, File(Corrupt)}
          /\ saves' = [saves EXCEPT ![s].pc = "finally"]
          /\ Fails
    /\ UNCHANGED <<call, ret, isDirty, pendingSave, lockFile, backupFile>>
    /\ SaveFrame

\* save without the removeLock of its finally block
StorageManager_save_finally_keepLock(s) ==
    /\ saves[s].pc = "finally"
    /\ UNCHANGED lockFile
    /\ IF saves[s].written
       THEN SaveReturns(s, Success("save", <<>>))
       ELSE SaveGoes(s, "catch")
    /\ UNCHANGED <<memoryFile, backupFile>>
    /\ Works
    /\ SaveFrame

\* save: finally { await this.removeLock() }
StorageManager_save_finally(s) ==
    /\ saves[s].pc = "finally"
    /\ lockFile' = NoFile
    /\ IF saves[s].written
       THEN SaveReturns(s, Success("save", <<>>))
       ELSE SaveGoes(s, "catch")
    /\ UNCHANGED <<memoryFile, backupFile>>
    /\ Works
    /\ SaveFrame

\* save: catch { await this.removeLock(); return failure }
StorageManager_save_catch(s) ==
    /\ saves[s].pc = "catch"
    /\ lockFile' = NoFile
    /\ SaveReturns(s, Failure("save", "Failed to save memory"))
    /\ UNCHANGED <<memoryFile, backupFile>>
    /\ Works
    /\ SaveFrame

\* the Map copied by getAllNodes shares the node objects: a node deleted
\* from the graph stays in the copy as delete left it
Detach(svs, id) ==
    [s \in DOMAIN svs |->
        IF id \in svs[s].keys /\ id \notin DOMAIN svs[s].detached
        THEN [svs[s] EXCEPT !.detached =
                 Put(@, id, [nodes[id] EXCEPT !.associations = spliceFirst(@, id)])]
        ELSE svs[s]]

\* a request that changes the graph: the LongTermMemory call whose outcome
\* is g and, after a success, this.save() without await
StoreRequest(c, g, svs) ==
    /\ call' = c
    /\ nodes' = g.nodes
    /\ isDirty' = g.isDirty
    /\ uuidCount' = g.uuidCount
    /\ ret' = g.ret
    /\ saves' = IF g.ret.ok
                THEN LET started == BrainMCP_save_start(g.nodes, g.isDirty,
                                                        steps + 1, FALSE)
                     IN  [s \in DOMAIN started |->
                             IF s \in DOMAIN svs THEN svs[s] ELSE started[s]]
                ELSE saves
    /\ steps' = steps + 1
    /\ UNCHANGED <<chains, thoughts, currentMode, memories, capacity, now,
                   lockFile, memoryFile, backupFile, pendingSave, timerArmed,
                   initialized, enableBackup>>

\* the ids and associations the requests of the storage specification use
StoreIds == {UUID(1)}

StoreAssociations == {<<>>, <<UUID(1)>>}

BrainMCP_addLongTermMemory ==
    \E associations \in StoreAssociations :
        StoreRequest([op |-> "add", text |-> <<"a">>,
                      associations |-> associations],
                     LongTermMemory_add(<<"a">>, associations), saves)

\* getLongTermMemory returns what LongTermMemory.get returns: no save
BrainMCP_getLongTermMemory ==
    \E id \in StoreIds :
        LET g == LongTermMemory_get(id, EmptyMap)
        IN  /\ call' = [op |-> "get", id |-> id, options |-> EmptyMap]
            /\ nodes' = g.nodes
            /\ isDirty' = g.isDirty
            /\ uuidCount' = g.uuidCount
            /\ ret' = g.ret
            /\ steps' = steps + 1
            /\ UNCHANGED <<chains, thoughts, currentMode, memories, capacity,
                           now, lockFile, memoryFile, backupFile, saves,
                           pendingSave, timerArmed, initialized, enableBackup>>

StoreUpdates ==
    {[newText |-> <<"b">>],
     [newText |-> <<"b">>, newAssociations |-> <<UUID(2)>>]}

BrainMCP_updateLongTermMemory ==
    \E id \in StoreIds, args \in StoreUpdates :
        StoreRequest([op |-> "update", id |-> id, args |-> args],
                     LongTermMemory_update(id, args), saves)

BrainMCP_deleteLongTermMemory ==
    \E id \in StoreIds :
        StoreRequest([op |-> "delete", id |-> id], LongTermMemory_delete(id),
                     IF id \in DOMAIN nodes THEN Detach(saves, id) ELSE saves)

\* the saveMemory tool: await brainMCP.save().  A call that starts no save
\* returns at once; the other returns when its save does
BrainMCP_save ==
    LET started == BrainMCP_save_start(nodes, isDirty, steps + 1, FALSE)
    IN  /\ call' = [op |-> "saveMemory"]
        /\ saves' = started
        /\ ret' = IF started # saves THEN ret
                  ELSE IF initialized THEN Success("save", <<>>)
                  ELSE Failure("save", "Memory system not initialized")
        /\ steps' = steps + 1
        /\ UNCHANGED <<nodes, isDirty, uuidCount, chains, thoughts, currentMode,
                       memories, capacity, now, lockFile, memoryFile,
                       backupFile, pendingSave, timerArmed, initialized,
                       enableBackup>>

\* the timer's callback without its guard
StorageManager_autoSave_noGuard ==
    /\ timerArmed
    /\ call' = [op |-> "autoSave", tick |-> steps + 1]
    /\ saves' = BrainMCP_save_start(nodes, isDirty, steps + 1, TRUE)
    /\ pendingSave' = (pendingSave \/ (initialized /\ isDirty))
    /\ steps' = steps + 1
    /\ UNCHANGED <<nodes, isDirty, chains, thoughts, currentMode, memories,
                   capacity, uuidCount, now, ret, lockFile, memoryFile,
                   backupFile, timerArmed, initialized, enableBackup>>

\* the callback of setInterval in startAutoSave, when the timer fires for
\* the tick-th event of the run
StorageManager_autoSave ==
    /\ timerArmed
    /\ call' = [op |-> "autoSave", tick |-> steps + 1]
    /\ IF pendingSave
       THEN UNCHANGED <<saves, pendingSave>>
       ELSE /\ saves' = BrainMCP_save_start(nodes, isDirty, steps + 1, TRUE)
            /\ pendingSave' = (initialized /\ isDirty)
    /\ steps' = steps + 1
    /\ UNCHANGED <<nodes, isDirty, chains, thoughts, currentMode, memories,
                   capacity, uuidCount, now, ret, lockFile, memoryFile,
                   backupFile, timerArmed, initialized, enableBackup>>

\* another process running the same save on the same storage directory
OtherProcess == 0

OtherFrame ==
    /\ steps' = steps + 1
    /\ UNCHANGED <<nodes, isDirty, chains, thoughts, currentMode, memories,
                   capacity, uuidCount, now, call, ret, memoryFile,
                   backupFile, saves, pendingSave, timerArmed, initialized,
                   enableBackup>>

\* it found no lock, or a stale one, and writes its own
OtherProcess_createLock ==
    /\ IF lockFile.exists THEN now - lockFile.mtime > StaleLockAge ELSE TRUE
    /\ lockFile' = LockFileOf(OtherProcess, now)
    /\ OtherFrame

\* its save ends
OtherProcess_removeLock ==
    /\ lockFile.exists
    /\ lockFile.owner = OtherProcess
    /\ lockFile' = NoFile
    /\ OtherFrame

ClockInputs == {StaleLockAge, StaleLockAge + 1}

StoreTick == \E dt \in ClockInputs : Advance(dt)

\* the adapter awaits init() before it serves a request
StoreInit == call.op = "new" /\ BrainMCP_init

\* it serves requests, and the run is within its bound
StoreServing == call.op # "new" /\ steps < StoreSteps

NextStore ==
    \/ StoreInit
    \/ StoreServing /\ BrainMCP_addLongTermMemory
    \/ StoreServing /\ BrainMCP_getLongTermMemory
    \/ StoreServing /\ BrainMCP_updateLongTermMemory
    \/ StoreServing /\ BrainMCP_deleteLongTermMemory
    \/ StoreServing /\ StorageManager_autoSave
    \/ StoreServing /\ OtherProcess_createLock
    \/ StoreServing /\ OtherProcess_removeLock
    \/ StoreServing /\ StoreTick
    \/ \E s \in DOMAIN saves : StorageManager_isLocked_access(s)
    \/ \E s \in DOMAIN saves : StorageManager_isLocked_stat(s)
    \/ \E s \in DOMAIN saves : StorageManager_isLocked_removeLock(s)
    \/ \E s \in DOMAIN saves : StorageManager_createLock(s)
    \/ \E s \in DOMAIN saves : StorageManager_save_access(s)
    \/ \E s \in DOMAIN saves : StorageManager_save_copyFile(s)
    \/ \E s \in DOMAIN saves : StorageManager_save_writeFile(s)
    \/ \E s \in DOMAIN saves : StorageManager_save_finally(s)
    \/ \E s \in DOMAIN saves : StorageManager_save_catch(s)

\* the lock files found at the start, all written just now: one that holds
\* the time of writing, as createLock writes it, and one that holds a time
\* more than the stale age before it
LeftLocks ==
    {[exists |-> TRUE, mtime |-> 0, content |-> 0, owner |-> OtherProcess],
     [exists |-> TRUE, mtime |-> 0, content |-> 0 - (StaleLockAge + 1),
      owner |-> OtherProcess]}

InitStore ==
    \E backup \in BOOLEAN :
        \E lock \in {NoFile} \cup LeftLocks :
            InitWith(backup, lock)

SpecStore == InitStore /\ [][NextStore]_vars

(***************************************************************************)
(* The load specification: the process starts on a storage directory that  *)
(* an earlier run left, serves requests that add a node, and may be killed *)
(* and started again.                                                      *)
(***************************************************************************)
\* the process is killed and started anew: new BrainMCP(); the files stay
ProcessRestart ==
    /\ nodes' = EmptyMap
    /\ isDirty' = FALSE
    /\ chains' = EmptyMap
    /\ thoughts' = EmptyMap
    /\ currentMode' = "analytical"
    /\ memories' = <<>>
    /\ capacity' = DefaultCapacity
    /\ call' = [op |-> "new"]
    /\ ret' = NoCall
    /\ saves' = EmptyMap
    /\ pendingSave' = FALSE
    /\ timerArmed' = FALSE
    /\ initialized' = FALSE
    /\ steps' = steps + 1
    /\ UNCHANGED <<uuidCount, now, lockFile, memoryFile, backupFile,
                   enableBackup>>

\* graphs an earlier run saved
DiskGraphs ==
    LET first == NewNode(UUID(1), <<"a">>, <<>>)
        second == NewNode(UUID(2), <<"a">>, <<UUID(1)>>)
    IN  [one |-> Put(EmptyMap, UUID(1), first),
         two |-> Put(Put(EmptyMap, UUID(1), first), UUID(2), second)]

\* the files an earlier run may have left
DiskFile(left) ==
    CASE left = "none" -> NoFile
      [] left = "corrupt" -> File(Corrupt)
      [] left = "empty" -> File(NoMemories)
      [] left = "one" -> File(stringify([memories |-> DiskGraphs.one]))
      [] left = "two" -> File(stringify([memories |-> DiskGraphs.two]))

InitLoad ==
    \E backup \in BOOLEAN :
        \E primary \in {"none", "corrupt", "empty", "one"} :
            \E secondary \in {"none", "corrupt", "two"} :
                InitDisk(backup, NoFile, DiskFile(primary),
                         DiskFile(secondary), 2)

NextLoad ==
    \/ StoreInit
    \/ StoreServing /\ BrainMCP_addLongTermMemory
    \/ StoreServing /\ ProcessRestart
    \/ \E s \in DOMAIN saves : StorageManager_isLocked_access(s)
    \/ \E s \in DOMAIN saves : StorageManager_isLocked_stat(s)
    \/ \E s \in DOMAIN saves : StorageManager_createLock(s)
    \/ \E s \in DOMAIN saves : StorageManager_save_access(s)
    \/ \E s \in DOMAIN saves : StorageManager_save_copyFile(s)
    \/ \E s \in DOMAIN saves : StorageManager_save_writeFile(s)
    \/ \E s \in DOMAIN saves : StorageManager_save_finally(s)
    \/ \E s \in DOMAIN saves : StorageManager_save_catch(s)

SpecLoad == InitLoad /\ [][NextLoad]_vars

(***************************************************************************)
(* The timer specification: requests that add a node, ticks of the         *)
(* auto-save timer and of the clock, up to TimerSteps of them, and the     *)
(* saves they start.                                                       *)
(***************************************************************************)
TimerServing == call.op # "new" /\ steps < TimerSteps

NextTimer ==
    \/ StoreInit
    \/ TimerServing /\ BrainMCP_addLongTermMemory
    \/ TimerServing /\ StorageManager_autoSave
    \/ TimerServing /\ StoreTick
    \/ \E s \in DOMAIN saves : StorageManager_isLocked_access(s)
    \/ \E s \in DOMAIN saves : StorageManager_isLocked_stat(s)
    \/ \E s \in DOMAIN saves : StorageManager_isLocked_removeLock(s)
    \/ \E s \in DOMAIN saves : StorageManager_createLock(s)
    \/ \E s \in DOMAIN saves : StorageManager_save_access(s)
    \/ \E s \in DOMAIN saves : StorageManager_save_copyFile(s)
    \/ \E s \in DOMAIN saves : StorageManager_save_writeFile(s)
    \/ \E s \in DOMAIN saves : StorageManager_save_finally(s)
    \/ \E s \in DOMAIN saves : StorageManager_save_catch(s)

SpecTimer == Init /\ [][NextTimer]_vars

(***************************************************************************)
(* The save specification: requests that change the graph or only read it, *)
(* the saveMemory tool and the timer, up to SaveSteps of them, and the     *)
(* steps of the saves they start.                                          *)
(***************************************************************************)
SaveServing == call.op # "new" /\ steps < SaveSteps

NextSave ==
    \/ StoreInit
    \/ SaveServing /\ BrainMCP_addLongTermMemory
    \/ SaveServing /\ BrainMCP_getLongTermMemory
    \/ SaveServing /\ BrainMCP_save
    \/ SaveServing /\ StorageManager_autoSave
    \/ \E s \in DOMAIN saves : StorageManager_isLocked_access(s)
    \/ \E s \in DOMAIN saves : StorageManager_isLocked_stat(s)
    \/ \E s \in DOMAIN saves : StorageManager_createLock(s)
    \/ \E s \in DOMAIN saves : StorageManager_save_access(s)
    \/ \E s \in DOMAIN saves : StorageManager_save_copyFile(s)
    \/ \E s \in DOMAIN saves : StorageManager_save_writeFile(s)
    \/ \E s \in DOMAIN saves : StorageManager_save_finally(s)
    \/ \E s \in DOMAIN saves : StorageManager_save_catch(s)

SpecSave == Init /\ [][NextSave]_vars

(***************************************************************************)
(* The snapshot specification: up to SnapshotSteps requests that change    *)
(* the graph, and the steps of the saves they start.                       *)
(***************************************************************************)
SnapshotServing == call.op # "new" /\ steps < SnapshotSteps

NextSnapshot ==
    \/ StoreInit
    \/ SnapshotServing /\ BrainMCP_addLongTermMemory
    \/ SnapshotServing /\ BrainMCP_updateLongTermMemory
    \/ SnapshotServing /\ BrainMCP_deleteLongTermMemory
    \/ \E s \in DOMAIN saves : StorageManager_isLocked_access(s)
    \/ \E s \in DOMAIN saves : StorageManager_isLocked_stat(s)
    \/ \E s \in DOMAIN saves : StorageManager_createLock(s)
    \/ \E s \in DOMAIN saves : StorageManager_save_access(s)
    \/ \E s \in DOMAIN saves : StorageManager_save_copyFile(s)
    \/ \E s \in DOMAIN saves : StorageManager_save_writeFile(s)
    \/ \E s \in DOMAIN saves : StorageManager_save_finally(s)
    \/ \E s \in DOMAIN saves : StorageManager_save_catch(s)

SpecSnapshot == Init /\ [][NextSnapshot]_vars

(***************************************************************************)
(* The shutdown specification: requests that add a node, shutdown(), the   *)
(* clock and another process at the lock.  A shutdown in flight is an      *)
(* entry of `saves` with pc "cleanup" under the key 0 - k, where k is the  *)
(* id of the save it awaits.                                               *)
(***************************************************************************)
\* BrainMCP.shutdown up to its first await: await this.save()
BrainMCP_shutdown ==
    LET sid == steps + 1
        started == BrainMCP_save_start(nodes, isDirty, sid, FALSE)
    IN  /\ call' = [op |-> "shutdown", at |-> sid]
        /\ saves' = Put(started, 0 - sid, [pc |-> "cleanup", awaits |-> sid])
        /\ steps' = steps + 1
        /\ UNCHANGED <<nodes, isDirty, chains, thoughts, currentMode, memories,
                       capacity, uuidCount, now, ret, lockFile, memoryFile,
                       backupFile, pendingSave, timerArmed, initialized,
                       enableBackup>>

\* BrainMCP.shutdown after its save returned: storage.cleanup(), which is
\* stopAutoSave() and removeLock(), then initialized = false
BrainMCP_shutdown_cleanup(s) ==
    /\ saves[s].pc = "cleanup"
    /\ saves[s].awaits \notin DOMAIN saves
    /\ timerArmed' = FALSE
    /\ lockFile' = NoFile
    /\ initialized' = FALSE
    /\ saves' = [x \in DOMAIN saves \ {s} |-> saves[x]]
    /\ call' = [op |-> "shutdown", at |-> saves[s].awaits]
    /\ ret' = Success("shutdown", <<>>)
    /\ UNCHANGED <<nodes, isDirty, chains, thoughts, currentMode, memories,
                   capacity, uuidCount, now, memoryFile, backupFile,
                   pendingSave, enableBackup, steps>>

ShutdownServing == call.op # "new" /\ steps < ShutdownSteps

NextShutdown ==
    \/ StoreInit
    \/ ShutdownServing /\ BrainMCP_addLongTermMemory
    \/ ShutdownServing /\ BrainMCP_shutdown
    \/ ShutdownServing /\ OtherProcess_createLock
    \/ ShutdownServing /\ OtherProcess_removeLock
    \/ ShutdownServing /\ StoreTick
    \/ \E s \in DOMAIN saves : BrainMCP_shutdown_cleanup(s)
    \/ \E s \in DOMAIN saves : StorageManager_isLocked_access(s)
    \/ \E s \in DOMAIN saves : StorageManager_isLocked_stat(s)
    \/ \E s \in DOMAIN saves : StorageManager_isLocked_removeLock(s)
    \/ \E s \in DOMAIN saves : StorageManager_createLock(s)
    \/ \E s \in DOMAIN saves : StorageManager_save_access(s)
    \/ \E s \in DOMAIN saves : StorageManager_save_copyFile(s)
    \/ \E s \in DOMAIN saves : StorageManager_save_writeFile(s)
    \/ \E s \in DOMAIN saves : StorageManager_save_finally(s)
    \/ \E s \in DOMAIN saves : StorageManager_save_catch(s)

SpecShutdown == Init /\ [][NextShutdown]_vars

(***************************************************************************)
(* The liveness specification: up to LiveSteps requests, a timer that      *)
(* keeps firing and saves whose file operations succeed, each of which     *)
(* goes on (an awaited file operation completes); no                       *)
(* other process uses the directory.  The timer's firings are not counted, *)
(* and its save has the id 0 (at most one of them is in flight).           *)
(***************************************************************************)
LiveServing == call.op # "new" /\ steps < LiveSteps

\* the setInterval callback of startAutoSave
LiveTimer ==
    /\ timerArmed
    /\ call' = [op |-> "autoSave", tick |-> 0]
    /\ IF pendingSave
       THEN UNCHANGED <<saves, pendingSave>>
       ELSE /\ saves' = BrainMCP_save_start(nodes, isDirty, 0, TRUE)
            /\ pendingSave' = (initialized /\ isDirty)
    /\ UNCHANGED <<nodes, isDirty, chains, thoughts, currentMode, memories,
                   capacity, uuidCount, now, ret, lockFile, memoryFile,
                   backupFile, timerArmed, initialized, enableBackup, steps>>

\* a step of a save whose file operation succeeds
LiveSave(s) ==
    /\ s \in DOMAIN saves
    /\ UNCHANGED steps
    /\ \/ StorageManager_isLocked_access(s)
       \/ StorageManager_isLocked_stat(s)
       \/ StorageManager_createLock(s)
       \/ StorageManager_save_access(s)
       \/ StorageManager_save_copyFile(s)
       \/ StorageManager_save_writeFile(s)
       \/ StorageManager_save_finally(s)

NextLive ==
    \/ StoreInit
    \/ LiveServing /\ BrainMCP_addLongTermMemory
    \/ LiveTimer
    \/ \E s \in 0..LiveSteps : LiveSave(s)

SpecLive ==
    /\ Init
    /\ [][NextLive]_vars
    /\ WF_vars(StoreInit)
    /\ WF_vars(LiveTimer)
    /\ \A s \in 0..LiveSteps : WF_vars(LiveSave(s))

(***************************************************************************)
(* The crash specification: the process starts on a storage directory that *)
(* an earlier run left, serves requests that add a node, and is killed at  *)
(* any moment and started again; file operations succeed unless the        *)
(* process is killed in them.                                              *)
(***************************************************************************)
\* the saves in flight when the process is killed: where each is, the files
\* it found when it was called, and the graph it writes
Crashed ==
    [s \in DOMAIN saves |->
        [pc |-> saves[s].pc, before |-> saves[s].before,
         writing |-> SnapshotNodes(saves[s])]]

\* the process is killed and started anew: a file that a save is writing
\* (fs.writeFile of the primary file, fs.copyFile to the backup file) is
\* as it was, complete or cut short
ProcessCrash ==
    /\ memoryFile' \in
           {memoryFile}
               \cup UNION {{File(Corrupt), File(stringify([memories |-> SnapshotNodes(saves[s])]))} :
                              s \in {x \in DOMAIN saves : saves[x].pc = "write"}}
    /\ backupFile' \in
           {backupFile}
               \cup UNION {{File(Corrupt), memoryFile} :
                              s \in {x \in DOMAIN saves : saves[x].pc = "copy"}}
    /\ nodes' = EmptyMap
    /\ isDirty' = FALSE
    /\ chains' = EmptyMap
    /\ thoughts' = EmptyMap
    /\ currentMode' = "analytical"
    /\ memories' = <<>>
    /\ capacity' = DefaultCapacity
    /\ call' = [op |-> "new", crashed |-> Crashed]
    /\ ret' = NoCall
    /\ saves' = EmptyMap
    /\ pendingSave' = FALSE
    /\ timerArmed' = FALSE
    /\ initialized' = FALSE
    /\ steps' = steps + 1
    /\ UNCHANGED <<uuidCount, now, lockFile, enableBackup>>

CrashServing == call.op # "new" /\ steps < CrashSteps

NextCrash ==
    \/ StoreInit
    \/ CrashServing /\ BrainMCP_addLongTermMemory
    \/ CrashServing /\ ProcessCrash
    \/ \E s \in DOMAIN saves : LiveSave(s)

SpecCrash == InitLoad /\ [][NextCrash]_vars

(***************************************************************************)
(* Properties of the storage.                                              *)
(***************************************************************************)
\* the save call s takes its step from pc
StepsFrom(s, pc) ==
    /\ s \in DOMAIN saves
    /\ saves[s].pc = pc
    /\ s \in DOMAIN saves' => saves'[s].pc # pc

Returns(s) == s \in DOMAIN saves /\ s \notin DOMAIN saves'

LockedError == "Storage is locked by another process"

LockAge == now - lockFile.mtime

\* C8: a save that finds a lock file younger than 5 minutes returns the
\* failure "storage locked" and leaves the primary file, the backup file
\* and the lock file as they are; a save that finds a lock file older than
\* 5 minutes removes it and goes on to write its own lock.
C8_LockRejectsUnlessStale ==
    [][\A s \in DOMAIN saves :
          /\ (StepsFrom(s, "stat") /\ lockFile.exists /\ LockAge < StaleLockAge)
                => /\ Returns(s)
                   /\ ~ret'.ok
                   /\ ret'.error = LockedError
                   /\ call' = [op |-> "save", save |-> s, timer |-> saves[s].timer]
                   /\ UNCHANGED <<lockFile, memoryFile, backupFile>>
          /\ (StepsFrom(s, "stat") /\ lockFile.exists /\ LockAge > StaleLockAge)
                => /\ ~Returns(s)
                   /\ saves'[s].pc = "unlinkStale"
                   /\ UNCHANGED <<memoryFile, backupFile>>
          /\ StepsFrom(s, "unlinkStale")
                => /\ ~Returns(s)
                   /\ saves'[s].pc = "createLock"
                   /\ ~lockFile'.exists
                   /\ UNCHANGED <<memoryFile, backupFile>>]_vars

\* a save was turned away by the lock of another process, which is still
\* there, and nothing was written
C8_Witness ==
    /\ call.op = "save"
    /\ ~ret.ok
    /\ ret.error = LockedError
    /\ lockFile.exists
    /\ lockFile.owner = OtherProcess
    /\ ~memoryFile.exists
    /\ ~backupFile.exists

Writing(s) == saves[s].pc \in {"backupAccess", "copy", "write"}

\* C10: no two save calls of this process are at the same time past the
\* lock check and before their lock removal.
C10_SavesSerialized ==
    \A s, t \in DOMAIN saves : (Writing(s) /\ Writing(t)) => s = t

TimerSaves == {s \in DOMAIN saves : saves[s].timer}

\* the timer fires
Ticks == call' # call /\ call'.op = "autoSave"

\* C11: at most one save started by the timer is in flight; a tick of the
\* timer while one is in flight starts no save; when the timer's save
\* returns the guard is released, and a tick with no timer save in flight
\* starts one (if there is something to save).
C11_OneTimerSave ==
    [][/\ Cardinality(TimerSaves') <= 1
       /\ (Ticks /\ TimerSaves # {}) => saves' = saves
       /\ \A s \in TimerSaves : Returns(s) => ~pendingSave'
       /\ (Ticks /\ TimerSaves = {} /\ initialized /\ isDirty)
              => /\ Cardinality(TimerSaves') = 1
                 /\ DOMAIN saves' = DOMAIN saves \cup TimerSaves'
                 /\ pendingSave']_vars

\* the timer fired while the save an earlier tick started was in flight,
\* and there was something to save
C11_Witness ==
    /\ call.op = "autoSave"
    /\ isDirty
    /\ \E s \in TimerSaves : s < call.tick

GraphOps == {"add", "get", "update", "delete"}

\* C12: a graph operation that changes the node map leaves the dirty flag
\* set; the flag goes from set to clear only when a save returns success;
\* a save that returns failure changes neither the flag nor the node map.
C12_DirtyTracksMutations ==
    [][/\ (nodes' # nodes /\ call'.op \in GraphOps) => isDirty'
       /\ (isDirty /\ ~isDirty')
              => \E s \in DOMAIN saves :
                     Returns(s) /\ call'.op = "save" /\ ret'.ok
       /\ \A s \in DOMAIN saves :
              (Returns(s) /\ call'.op = "save" /\ ~ret'.ok)
                  => UNCHANGED <<nodes, isDirty>>]_vars

\* C13: every successful add, get, update and delete that changes the graph
\* starts a save in the same request.
C13_SaveAfterMutation ==
    [][(nodes' # nodes /\ call'.op \in GraphOps /\ ret'.ok /\ initialized)
           => \E s \in DOMAIN saves' : s \notin DOMAIN saves]_vars

\* init is called on a new store
Loads == call.op = "new" /\ call'.op = "init"

\* the graph the save call s writes
Snapshot(s) == [memories |-> SnapshotNodes(saves[s])]

Writes(s) ==
    StepsFrom(s, "write") /\ s \in DOMAIN saves' /\ saves'[s].written

\* C14: when a save has written the primary file, the file parses and
\* loadNodes on its memories gives a node map equal to the one saved, with
\* the dirty flag clear; and init on a new store loads just that.
C14_RoundTrip ==
    [][/\ \A s \in DOMAIN saves :
              Writes(s)
                  => /\ Parses(memoryFile')
                     /\ LongTermMemory_loadNodes(parse(memoryFile'.data).memories).nodes
                            = SnapshotNodes(saves[s])
                     /\ ~LongTermMemory_loadNodes(parse(memoryFile'.data).memories).isDirty
       /\ (Loads /\ Parses(memoryFile))
              => /\ ret'.ok
                 /\ nodes' = parse(memoryFile.data).memories
                 /\ ~isDirty']_vars

\* a process started anew has loaded a node that the run before it added
\* and saved, with its association
C14_Witness ==
    /\ call.op = "init"
    /\ ret.ok
    /\ ~isDirty
    /\ UUID(3) \in DOMAIN nodes
    /\ nodes[UUID(3)].associations = <<UUID(1)>>
    /\ Parses(memoryFile)
    /\ nodes = parse(memoryFile.data).memories

\* C15: with no primary file load gives the empty graph, whatever the
\* backup; with a primary file that does not read, parse or have the
\* structure, it gives the backup's graph if backups are enabled and the
\* backup is valid, and fails otherwise.
C15_LoadFallsBack ==
    [][Loads
          => /\ ~memoryFile.exists
                    => /\ ret'.ok
                       /\ initialized'
                       /\ nodes' = EmptyMap
             /\ (memoryFile.exists /\ ~Parses(memoryFile))
                    => IF enableBackup /\ Parses(backupFile)
                       THEN /\ ret'.ok
                            /\ initialized'
                            /\ nodes' = parse(backupFile.data).memories
                       ELSE /\ ~ret'.ok
                            /\ ~initialized'
                            /\ nodes' = nodes]_vars

\* init has recovered the graph from the backup of an invalid primary file
C15_Witness ==
    /\ call.op = "init"
    /\ ret.ok
    /\ memoryFile.exists
    /\ ~Parses(memoryFile)
    /\ Parses(backupFile)
    /\ nodes = parse(backupFile.data).memories
    /\ nodes # EmptyMap

\* C16: when a save returns success, the primary file holds the snapshot;
\* if backups are enabled and there was a primary file when the save was
\* called, the backup file holds what the primary file held then, and
\* otherwise the backup file is as it was.
C16_BackupHoldsPrevious ==
    [][\A s \in DOMAIN saves :
          (Returns(s) /\ call'.op = "save" /\ ret'.ok)
              => /\ memoryFile' = File(stringify(Snapshot(s)))
                 /\ backupFile' =
                        IF enableBackup /\ saves[s].before.primary.exists
                        THEN saves[s].before.primary
                        ELSE saves[s].before.backup]_vars

\* C17: a save that finds a lock file whose content is a time more than 5
\* minutes in the past is not turned away: it takes the lock for stale and
\* goes on to remove it.
C17_StaleByContent ==
    [][\A s \in DOMAIN saves :
          (StepsFrom(s, "stat") /\ lockFile.exists
              /\ now - lockFile.content > StaleLockAge)
              => /\ ~Returns(s)
                 /\ saves'[s].pc = "unlinkStale"]_vars

(***************************************************************************)
(* Properties of completeThoughtProcess and branchThought.                 *)
(***************************************************************************)
Completes ==
    Called /\ call'.op = "completeThoughtProcess"
        /\ call'.chainId \in DOMAIN chains /\ ~AllBlank(call'.conclusion)

\* the graph gained one node and nothing else changed in it
GainedNode(id) ==
    /\ id \notin DOMAIN nodes
    /\ DOMAIN nodes' = DOMAIN nodes \cup {id}
    /\ \A k \in DOMAIN nodes : nodes'[k] = nodes[k]

C19_CompleteFrame ==
    [][Completes
          => LET c == call'.chainId
             IN  /\ DOMAIN chains' = DOMAIN chains
                 /\ chains'[c].status = "completed"
                 /\ chains'[c].completed_at = now
                 /\ chains'[c].thoughts = chains[c].thoughts
                 /\ chains'[c].branches = chains[c].branches
                 /\ \A d \in DOMAIN chains \ {c} : chains'[d] = chains[d]
                 /\ DOMAIN thoughts' = DOMAIN thoughts
                 /\ \A t \in DOMAIN thoughts :
                        thoughts'[t] =
                            IF t \in Range(chains[c].thoughts)
                               /\ thoughts[t].status = "active"
                            THEN [thoughts[t] EXCEPT !.status = "completed"]
                            ELSE thoughts[t]]_vars

\* a chain with a branch was completed: its own thought is completed, the
\* thought of its branch is still active
C19_Witness ==
    /\ call.op = "completeThoughtProcess"
    /\ ret.ok
    /\ call.chainId \in DOMAIN chains
    /\ \E t \in Range(chains[call.chainId].thoughts) :
           thoughts[t].status = "completed"
    /\ \E b \in Range(chains[call.chainId].branches) :
           \E t \in Range(chains[b].thoughts) : thoughts[t].status = "active"

Branches ==
    Called /\ call'.op = "branchThought" /\ call'.thoughtId \in DOMAIN thoughts

\* C20: a successful branchThought of a thought makes one new chain, active,
\* with one thought of depth 0 and no previous thought, appends the new
\* chain's id to the branches of the thought's chain and leaves the
\* thought's next_thoughts and its chain's thoughts list as they were; with
\* a thought text and the default confidence it succeeds whatever the status
\* of the thought's chain.
C20_BranchMakesOneChain ==
    [][Branches
          => LET source == thoughts[call'.thoughtId].parent_chain
                 new == DOMAIN chains' \ DOMAIN chains
             IN  /\ (~AllBlank(call'.thought) /\ call'.opt = EmptyMap)
                        => ret'.ok
                 /\ ret'.ok
                        => /\ Cardinality(new) = 1
                           /\ \A b \in new :
                                  /\ chains'[b].status = "active"
                                  /\ chains'[b].branches = <<>>
                                  /\ Len(chains'[b].thoughts) = 1
                                  /\ chains'[b].thoughts[1] \notin DOMAIN thoughts
                                  /\ thoughts'[chains'[b].thoughts[1]].reasoning_depth = 0
                                  /\ "previous_thought"
                                         \notin DOMAIN thoughts'[chains'[b].thoughts[1]]
                                  /\ thoughts'[chains'[b].thoughts[1]].parent_chain = b
                                  /\ chains'[source].branches
                                         = Append(chains[source].branches, b)
                           /\ chains'[source].thoughts = chains[source].thoughts
                           /\ chains'[source].status = chains[source].status
                           /\ thoughts'[call'.thoughtId].next_thoughts
                                  = thoughts[call'.thoughtId].next_thoughts]_vars

\* a thought of a chain that is not active was branched
C20_Witness ==
    /\ call.op = "branchThought"
    /\ ret.ok
    /\ call.thoughtId \in DOMAIN thoughts
    /\ chains[thoughts[call.thoughtId].parent_chain].status
           \in {"paused", "completed"}
    /\ chains[thoughts[call.thoughtId].parent_chain].branches # <<>>

(***************************************************************************)
(* Properties of resumeThinking and switchCognitiveMode.                   *)
(***************************************************************************)
Resumes ==
    Called /\ call'.op = "resumeThinking" /\ call'.chainId \in DOMAIN chains

\* C21: resumeThinking of an existing chain succeeds exactly when the
\* chain's status is paused and then sets it to active, changing nothing
\* else of the chains; on an active or completed chain it fails and leaves
\* the chains as they were.
C21_ResumeOnlyPaused ==
    [][Resumes
          => LET c == call'.chainId
             IN  /\ ret'.ok <=> chains[c].status = "paused"
                 /\ ret'.ok
                        => chains' = [chains EXCEPT ![c].status = "active"]
                 /\ ~ret'.ok => UNCHANGED chains]_vars

\* a paused chain was resumed
C21_Witness ==
    /\ call.op = "resumeThinking"
    /\ ret.ok
    /\ call.chainId \in DOMAIN chains
    /\ chains[call.chainId].status = "active"

(***************************************************************************)
(* Properties of get and search.                                           *)
(***************************************************************************)
\* the depth a get was called with, 1 when it was omitted
AskedDepth(options) ==
    IF "depth" \in DOMAIN options THEN options.depth ELSE 1

\* the nodes that follow the k-th node of the chain, the nearest first, down
\* to the n-th after it or to the end of the chain
Following(k, n) == [i \in 1..Min(n, k - 1) |-> UUID(k - i)]

\* C22: on a chain of nodes each associating only the next, a successful
\* get(N0, d) returns exactly N1..N(min(d, 3)): an omitted depth behaves as
\* 1, depth 0 returns nothing and every depth above 3 behaves as 3.
C22_DepthOnChain ==
    (call.op = "get" /\ ret.ok)
        => \E k \in 1..uuidCount :
               /\ call.id = UUID(k)
               /\ Tail(ret.data)
                      = Following(k, Min(AskedDepth(call.options), MaxDepth))

\* the head of the chain of five nodes was read at a depth above 3: three
\* nodes come back and the fifth does not
C22_Witness ==
    /\ call.op = "get"
    /\ ret.ok
    /\ uuidCount = 5
    /\ call.id = UUID(5)
    /\ "depth" \in DOMAIN call.options
    /\ call.options.depth > MaxDepth
    /\ Tail(ret.data) = <<UUID(4), UUID(3), UUID(2)>>

\* C23: a successful get(id, depth) increases the accessCount of the node id
\* by exactly 1, sets the dirty flag and changes no other node nor the text
\* and associations of the node id; no call decreases the accessCount of a
\* node.
C23_GetCountsTargetOnly ==
    [][/\ (Called /\ now' = now /\ call'.op = "get" /\ ret'.ok)
           => /\ call'.id \in DOMAIN nodes
              /\ DOMAIN nodes' = DOMAIN nodes
              /\ nodes'[call'.id].metadata.accessCount
                     = nodes[call'.id].metadata.accessCount + 1
              /\ nodes'[call'.id].text = nodes[call'.id].text
              /\ nodes'[call'.id].associations = nodes[call'.id].associations
              /\ \A k \in DOMAIN nodes \ {call'.id} : nodes'[k] = nodes[k]
              /\ isDirty'
       /\ \A k \in DOMAIN nodes \cap DOMAIN nodes' :
              nodes'[k].metadata.accessCount >= nodes[k].metadata.accessCount
      ]_vars

\* a node read once came back with an association that was never read
C23_Witness ==
    /\ call.op = "get"
    /\ ret.ok
    /\ Len(ret.data) > 1
    /\ nodes[call.id].metadata.accessCount = 1
    /\ \E k \in Range(Tail(ret.data)) : nodes[k].metadata.accessCount = 0

\* a call of BrainMCP.save is made: by the saveMemory tool, or by the timer
\* when its guard is free
SaveCalled ==
    /\ steps' = steps + 1
    /\ \/ call'.op = "saveMemory"
       \/ call'.op = "autoSave" /\ ~pendingSave

\* C24: BrainMCP.save on an initialized system whose graph is not dirty
\* returns success without touching storage: it starts no save, so no lock
\* file is created, no backup copied and the primary file is not written.
C24_CleanSaveTouchesNothing ==
    [][(SaveCalled /\ initialized /\ ~isDirty)
          => /\ saves' = saves
             /\ call'.op = "saveMemory" => ret' = Success("save", <<>>)
             /\ UNCHANGED <<lockFile, memoryFile, backupFile, nodes, isDirty>>
      ]_vars

\* the saveMemory tool was called after the graph had been saved, and no
\* save is in flight
C24_Witness ==
    /\ call.op = "saveMemory"
    /\ ret = Success("save", <<>>)
    /\ initialized
    /\ ~isDirty
    /\ nodes # EmptyMap
    /\ Parses(memoryFile)
    /\ saves = EmptyMap
    /\ ~lockFile.exists

\* the nodes whose text contains the keyword of the call c, in insertion
\* order, as search returns them
Matching(c) ==
    LET caseSensitive == "caseSensitive" \in DOMAIN c.options
                             /\ c.options.caseSensitive
        matches(id) ==
            IF caseSensitive THEN includes(nodes[id].text, c.keyword)
            ELSE includes(toLowerCase(nodes[id].text), toLowerCase(c.keyword))
        ids == SelectSeq(Entries(nodes), matches)
    IN  [i \in DOMAIN ids |-> [id |-> ids[i], text |-> nodes[ids[i]].text]]

\* the limit of the search call c
LimitOf(c) ==
    IF "limit" \in DOMAIN c.options THEN c.options.limit ELSE DefaultSearchLimit

\* the search call of this step succeeds
Searches == Called /\ call'.op = "search" /\ ret'.ok

\* C25: search(keyword, limit) returns the first min(limit, number of
\* matching nodes) nodes whose text contains the keyword, in insertion order,
\* for every limit including 0, never more than limit entries, and changes
\* neither a node nor the dirty flag.
C25_SearchReturnsFirstLimit ==
    [][Searches
          => /\ ret'.data = SubSeq(Matching(call'), 1,
                                   Min(LimitOf(call'), Len(Matching(call'))))
             /\ Len(ret'.data) <= LimitOf(call')
             /\ UNCHANGED <<nodes, isDirty>>]_vars

\* the same for the limits from 1 on
SearchReturnsFirstPositiveLimit ==
    [][(Searches /\ LimitOf(call') >= 1)
          => /\ ret'.data = SubSeq(Matching(call'), 1,
                                   Min(LimitOf(call'), Len(Matching(call'))))
             /\ UNCHANGED <<nodes, isDirty>>]_vars

Switches == Called /\ call'.op = "switchCognitiveMode"

\* C26: a chain's cognitive_mode is the tracker's global mode at the moment
\* the chain is created, by startThoughtProcess or by branchThought; a
\* switchCognitiveMode without chainId sets the global mode and changes the
\* cognitive_mode of no existing chain.
C26_ModeIsSnapshot ==
    [][/\ \A c \in DOMAIN chains' \ DOMAIN chains :
              /\ call'.op \in {"startThoughtProcess", "branchThought"}
              /\ chains'[c].cognitive_mode = currentMode
              /\ currentMode' = currentMode
       /\ (Switches /\ call'.opt = EmptyMap)
              => /\ ret'.ok
                 /\ currentMode' = call'.mode
                 /\ UNCHANGED chains]_vars

\* a chain was created after the global mode was switched: it has the new
\* mode, and a chain made before has the old one
C26_Witness ==
    /\ call.op \in {"startThoughtProcess", "branchThought"}
    /\ ret.ok
    /\ currentMode = "creative"
    /\ \E c, d \in DOMAIN chains :
           /\ chains[c].cognitive_mode = "analytical"
           /\ chains[d].cognitive_mode = "creative"

\* C27: switchCognitiveMode(mode, chainId) sets the global mode to mode also
\* when chainId is unknown and the call fails; with a known chainId it
\* succeeds and overwrites that chain's cognitive_mode whatever the chain's
\* status, changing no other chain.
C27_SwitchAlwaysSetsGlobal ==
    [][Switches
          => /\ currentMode' = call'.mode
             /\ "chainId" \in DOMAIN call'.opt
                    => IF call'.opt.chainId \in DOMAIN chains
                       THEN /\ ret'.ok
                            /\ chains' = [chains EXCEPT
                                   ![call'.opt.chainId].cognitive_mode = call'.mode]
                       ELSE /\ ~ret'.ok
                            /\ UNCHANGED chains]_vars

\* a switch with an unknown chainId failed and the global mode is the one it
\* asked for, which no chain has
C27_Witness ==
    /\ call.op = "switchCognitiveMode"
    /\ ~ret.ok
    /\ "chainId" \in DOMAIN call.opt
    /\ call.opt.chainId \notin DOMAIN chains
    /\ call.mode = "creative"
    /\ currentMode = "creative"
    /\ chains # EmptyMap
    /\ \A c \in DOMAIN chains : chains[c].cognitive_mode = "analytical"

(***************************************************************************)
(* Properties of the thoughts.                                             *)
(***************************************************************************)
\* C28: thoughts live only in the tracker: no thought id is a key of the
\* graph's node map, and no call of the tracker other than
\* completeThoughtProcess changes the node map or the dirty flag.
C28_ThoughtsStayInTracker ==
    [][/\ DOMAIN thoughts' \cap DOMAIN nodes' = {}
       /\ (Called /\ call'.op # "completeThoughtProcess")
              => UNCHANGED <<nodes, isDirty>>]_vars

\* a thought was added next to a graph that holds the summary of a
\* completed chain
C28_Witness ==
    /\ call.op \in {"addThought", "branchThought"}
    /\ ret.ok
    /\ ret.data[1] \in DOMAIN thoughts
    /\ nodes # EmptyMap
    /\ isDirty

(***************************************************************************)
(* Properties of the scratch buffer.                                       *)
(***************************************************************************)
\* the last n entries of s, or all of them
Newest(s, n) == SubSeq(s, Len(s) - Min(n, Len(s)) + 1, Len(s))

HasPrevious(thought) ==
    "previous_thought" \in DOMAIN thought /\ thought.previous_thought # ""

\* C30: each thought's reasoning_depth is 0 if it has no previous_thought
\* and otherwise the reasoning_depth of its previous_thought plus 1, and
\* then its id is in the next_thoughts of its previous_thought.
C30_DepthFollowsPrevious ==
    \A t \in DOMAIN thoughts :
        IF HasPrevious(thoughts[t])
        THEN LET previous == thoughts[t].previous_thought
             IN  /\ previous \in DOMAIN thoughts
                 /\ thoughts[t].reasoning_depth
                        = thoughts[previous].reasoning_depth + 1
                 /\ t \in Range(thoughts[previous].next_thoughts)
        ELSE thoughts[t].reasoning_depth = 0

\* a thought was added at depth 2, below a thought that has a parent
C30_Witness ==
    /\ call.op = "addThought"
    /\ ret.ok
    /\ thoughts[ret.data[1]].reasoning_depth = 2
    /\ HasPrevious(thoughts[ret.data[1]])

\* C36: a branchThought call that returns failure creates no chain and
\* leaves the branches list of the source chain (and every chain) unchanged,
\* also when the failure comes from the nested addThought.
C36_FailedBranchChangesNothing ==
    [][(Called /\ call'.op = "branchThought" /\ ~ret'.ok)
          => UNCHANGED chains]_vars

\* C37: a thought's previous_thought belongs to the same chain as the
\* thought itself.
C37_PreviousInSameChain ==
    \A t \in DOMAIN thoughts :
        HasPrevious(thoughts[t])
            => /\ thoughts[t].previous_thought \in DOMAIN thoughts
               /\ thoughts[thoughts[t].previous_thought].parent_chain
                      = thoughts[t].parent_chain

\* the number of places of the list s that hold x
Occurrences(s, x) == Cardinality({i \in DOMAIN s : s[i] = x})

\* C38: each thought id is in the thoughts list of exactly one chain, once,
\* and that chain is the thought's parent_chain; every id of a thoughts list
\* is a key of the thought map; every id of a branches list is an existing
\* chain that is in no other chain's branches.
C38_ChainsAndThoughtsAgree ==
    /\ \A t \in DOMAIN thoughts :
           /\ thoughts[t].parent_chain \in DOMAIN chains
           /\ \A c \in DOMAIN chains :
                  Occurrences(chains[c].thoughts, t)
                      = IF c = thoughts[t].parent_chain THEN 1 ELSE 0
    /\ \A c \in DOMAIN chains :
           /\ Range(chains[c].thoughts) \subseteq DOMAIN thoughts
           /\ Range(chains[c].branches) \subseteq DOMAIN chains
           /\ \A b \in Range(chains[c].branches) :
                  \A d \in DOMAIN chains \ {c} :
                      b \notin Range(chains[d].branches)

\* two chains hold thoughts, one the branch of the other, after a thought
\* was added with a parent
C38_Witness ==
    /\ \E c, d \in DOMAIN chains :
           /\ d \in Range(chains[c].branches)
           /\ Len(chains[c].thoughts) = 2
           /\ Len(chains[d].thoughts) = 1
    /\ \E t \in DOMAIN thoughts : HasPrevious(thoughts[t])

\* C39: a chain whose status is completed has no active thought in its own
\* thoughts list, every thought's status is active or completed, and
\* getThinkingProgress reports totalThoughts = completedThoughts +
\* activeThoughts for every chain.
C39_CompletedHasNoActive ==
    /\ \A c \in DOMAIN chains :
           /\ chains[c].status = "completed"
                  => \A t \in Range(chains[c].thoughts) :
                         thoughts[t].status # "active"
           /\ LET progress == ThinkingProcess_getThinkingProgress(Tracker, c)
              IN  progress.totalThoughts
                      = progress.completedThoughts + progress.activeThoughts
    /\ \A t \in DOMAIN thoughts : thoughts[t].status \in {"active", "completed"}

\* a chain that holds thoughts was completed
C39_Witness ==
    /\ call.op = "completeThoughtProcess"
    /\ ret.ok
    /\ chains[call.chainId].status = "completed"
    /\ chains[call.chainId].thoughts # <<>>
    /\ \A t \in Range(chains[call.chainId].thoughts) :
           thoughts[t].status = "completed"

\* the chain c has been completed before, when it had no thought: that call
\* added a summary node for it (thoughts are never taken off a chain)
Summarized(c) ==
    "completed_at" \in DOMAIN chains[c] /\ chains[c].thoughts = <<>>

\* C40: a chain contributes at most one summary node to the graph: a
\* completeThoughtProcess of a chain that has added its summary node adds no
\* second one.
C40_OneSummaryPerChain ==
    [][(Completes /\ Summarized(call'.chainId)) => UNCHANGED nodes]_vars

(***************************************************************************)
(* Properties of the saves that run side by side with the requests.        *)
(***************************************************************************)
\* C31: whenever the dirty flag is false and no save is in progress, after a
\* save has written the primary file, the primary file holds the in-memory
\* node map.
C31_NoLostUpdate ==
    (initialized /\ ~isDirty /\ saves = EmptyMap /\ memoryFile.exists)
        => /\ Parses(memoryFile)
           /\ parse(memoryFile.data).memories = nodes

\* every association of the node map m names a node of m
Closed(m) ==
    \A k \in DOMAIN m :
        \A i \in DOMAIN m[k].associations : m[k].associations[i] \in DOMAIN m

\* C32: every primary file written by a save is a consistent snapshot of the
\* graph: every association id in the file names a node in the file, also
\* when requests change the graph between the copy of the node map and its
\* serialization.
C32_FileIsConsistent ==
    [][\A s \in DOMAIN saves :
           Writes(s) => /\ Parses(memoryFile')
                        /\ Closed(parse(memoryFile'.data).memories)]_vars

\* the primary file holds the node id
Persisted(id) ==
    Parses(memoryFile) /\ id \in DOMAIN parse(memoryFile.data).memories

\* C33: with the system initialized, the timer firing again and again, no
\* other process at the lock and file operations that succeed, every node
\* added to the graph is eventually in the primary file.
C33_EventuallyPersisted ==
    \A id \in IdPool(LiveSteps) : (id \in DOMAIN nodes) ~> Persisted(id)

\* this process unlinks the lock file (a step of one of its saves or of its
\* shutdown; a step of the other process leaves call and saves alone)
ThisProcessDeletes ==
    /\ lockFile.exists
    /\ ~lockFile'.exists
    /\ <<call, saves>>' # <<call, saves>>

\* C34: this process deletes a lock file only if the lock is its own or is
\* older than the stale age: no step of a save, of shutdown or of cleanup
\* deletes a lock that another process wrote at most 5 minutes ago.
C34_DeletesOwnOrStaleLock ==
    [][ThisProcessDeletes =>
           \/ lockFile.owner # OtherProcess
           \/ now - lockFile.mtime > StaleLockAge]_vars

\* the save had written its lock when the process was killed
PastLock(c) == c.pc \in {"backupAccess", "copy", "write", "finally"}

\* C35: with backups enabled, when the process is killed in a save that was
\* called with a valid primary file and had written its lock, the load of
\* the process started anew succeeds and gives the graph of that primary
\* file or the graph the save was writing.
C35_CrashLeavesOldOrNew ==
    [][(Loads /\ enableBackup /\ "crashed" \in DOMAIN call)
           => \A s \in DOMAIN call.crashed :
                 (PastLock(call.crashed[s]) /\ Parses(call.crashed[s].before.primary))
                     => /\ ret'.ok
                        /\ nodes' \in {parse(call.crashed[s].before.primary.data).memories,
                                       call.crashed[s].writing}]_vars

====
